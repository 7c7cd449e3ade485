----------------------------- MODULE PluginProofs -----------------------------
(***************************************************************************)
(* Theorems about the protocol plugins: the life of a connection in each   *)
(* of them (ProtocolClient), the print jobs of RDP (RdpPrint) and the      *)
(* table of open files of its drive (RdpDrive).                            *)
(*                                                                         *)
(* ProtocolClient.  Which pointers are followed when nothing is there is a *)
(* question of where every thread is, so the inductive invariant, LifeInv, *)
(* says for each protocol what the place of the client thread, of the free *)
(* handler and of a user in the middle of a handler means for the          *)
(* pointers.  The proof goes step by step; every part is needed for the    *)
(* use of some pointer.                                                    *)
(*                                                                         *)
(* RdpPrint.  The pages that the RDP thread writes carry consecutive       *)
(* numbers.  That the owner's are consecutive is not inductive: it needs   *)
(* that the page in the buffer of the output thread, those in the pipe     *)
(* from the filter and those in the pipe to it continue the sequence, as   *)
(* long as they may still be read (Chain).  That the answers bound the     *)
(* blobs under way needs that an answer is owed, noted in the job's state, *)
(* or used by the thread that sends, one of the three (Tokens).  That an   *)
(* ended job is whole needs the number of pages on their way (Counted),    *)
(* and where the threads are when the descriptors are closed (Phases,      *)
(* Endings).                                                               *)
(*                                                                         *)
(* RdpDrive.  The inductive invariant is DriveInv: who holds which open    *)
(* file (Holders), and that the pool of ids has given out exactly those of *)
(* the open files (Table), without which an id that is opened could be one *)
(* that somebody holds.  A handler opens and closes several files in one   *)
(* step, so the lemmas are about states: a file is opened (Opens), nobody  *)
(* has it yet (Fresh), it is closed (Closes), or nothing that matters has  *)
(* changed (Quiet, Alike).                                                 *)
(* The count of the open files follows its handler in steps of its own:    *)
(* between them (DriveIInv) the count, what the two threads have still to  *)
(* count and what their races have lost add up to the open files           *)
(* (Balanced).                                                             *)
(*                                                                         *)
(* That no download is lost needs what is on the drive too (KeptInv): the  *)
(* names lead to inodes and to directories that are there (Disk), an open  *)
(* file keeps the inode it was opened for under whatever name (EntrySound),*)
(* and a download reads that inode from the place it has come to           *)
(* (StreamSound).  A step of the drive leaves the downloads alone but for  *)
(* the content of a file, which is noted in them (Later).                  *)
(***************************************************************************)
EXTENDS ProtocolClient, RdpPrint, RdpDrive, CommonProofs, FiniteSetTheorems, SequenceTheorems, TLAPS

-----------------------------------------------------------------------------
(* The life of a plugin.                                                   *)

(* Where the client thread may be.                                         *)
Places == {"unset", "wol", "screen", "connect", "prompt", "session", "run", "join", "release",
           "prepare", "connecting", "await", "publish", "display", "preconnect", "upgrade",
           "disconnect", "disconnecting", "clearing", "done"}
LifeTypes ==
    /\ protocol \in {"rdp", "vnc", "ssh", "telnet", "kubernetes"}
    /\ state \in {"running", "stopping"}
    /\ ptr \in [Objects -> {"null", "live", "dangling"}]
    /\ upc \in [Users -> {"out", "pending", "in", "act", "leaving", "left", "gone"}]
    /\ promo \in {"idle", "look", "sync"} /\ audioInput \in BOOLEAN
    /\ thread \in Places /\ fpc \in {"idle", "lock", "users", "handler", "join", "release", "done"}
    /\ readers \subseteq Users \cup {"thread", "promotion"} /\ writer \in BOOLEAN
    /\ woke \in BOOLEAN

(* Each protocol's thread goes its own way.                                *)
ByProtocol ==
    /\ protocol = "rdp" =>
          thread \notin {"screen", "prompt", "session", "join", "release", "display"}
    /\ protocol = "vnc" =>
          thread \in {"unset", "wol", "connect", "await", "publish", "display", "run", "done"}
    /\ protocol \in Terminals =>
          thread \notin {"prepare", "preconnect", "upgrade", "connecting", "await", "publish",
                         "display", "disconnect", "disconnecting", "clearing"}
    /\ thread \in {"prompt", "session"} => protocol = "ssh"
    /\ thread = "release" => protocol = "kubernetes"
    /\ audioInput => protocol = "rdp"

(* A thread that only cleans up has stopped the client before.             *)
Ends ==
    /\ thread \in {"join", "release"} => state = "stopping"
    /\ EndedStops

(* The free handler runs when the users have gone, and nobody joins then.  *)
Departed == fpc \notin {"idle", "lock", "users"} => \A u \in Users : upc[u] \in {"out", "gone"}

(* guac_client_free gets the list of pending users from the promotion, for *)
(* which a screen that it found stays until it is done with it.            *)
Promoting ==
    /\ promo # "idle" => fpc \in {"idle", "lock"}
    /\ promo = "sync" => /\ ptr["screen"] # "null"
                         /\ protocol = "rdp" => "promotion" \in readers

(* The owner's join brings the settings and starts the thread, which alone *)
(* makes all the rest.                                                     *)
Started ==
    /\ thread # "unset" => ptr["settings"] # "null" /\ upc[Owner] # "out"
    /\ ptr["screen"] # "null" \/ ptr["inst"] # "null" \/ argv # "idle" \/ input # "none" =>
          thread # "unset"

(* When a pointer may be left to an object that is released.               *)
Kept ==
    /\ fpc # "done" => ptr["settings"] # "dangling"
    /\ \A o \in {"screen", "inst"} : ptr[o] = "dangling" =>
          \/ fpc = "done"
          \/ protocol = "kubernetes" /\ thread = "done"
          \/ protocol = "telnet" /\ o = "screen" /\ fpc \in {"join", "release"}
          \/ protocol = "rdp" /\ o = "screen" /\ thread = "clearing"

(* Whom the free handler waits for, and that it waits for a thread only if *)
(* there is one; the client thread waits for the input thread.             *)
Joined ==
    /\ fpc \in {"release", "done"} /\ protocol \in {"rdp", "ssh", "kubernetes"} =>
          thread \in {"unset", "done"}
    /\ fpc = "join" /\ protocol \in {"vnc", "telnet"} => ptr["inst"] # "null"
    /\ fpc = "join" /\ protocol = "ssh" => ptr["screen"] # "null"
    /\ input = "read" => protocol \in Terminals /\ thread \in {"run", "join"}

(* The terminal is made once, before anything else; an owner who left      *)
(* without going wrong has seen it.                                        *)
TerminalLife == protocol \in Terminals =>
    /\ thread \in {"connect", "prompt", "session", "run", "join", "release"} =>
          ptr["screen"] # "null"
    /\ ptr["screen"] # "null" => thread \notin {"wol", "screen"}
    /\ thread # "unset" /\ upc[Owner] \in {"left", "gone"} => ptr["screen"] # "null"
    /\ \A u \in Users : upc[u] = "act" => ptr["screen"] # "null"

(* VNC makes the display after it has published its client.                *)
VncLife == protocol = "vnc" =>
    /\ thread \in {"display", "run"} => ptr["inst"] # "null"
    /\ thread = "run" => ptr["screen"] # "null"
    /\ \A u \in Users : upc[u] \in {"act", "leaving"} => ptr["screen"] # "null"

(* RDP takes its display and its instance away again, but not from a user  *)
(* or a promotion that holds the read lock.                                *)
RdpLife == protocol = "rdp" =>
    /\ thread \in {"preconnect", "upgrade", "connecting", "await", "publish", "run", "disconnect",
                   "disconnecting"} => ptr["screen"] # "null"
    /\ thread \in {"run", "disconnect", "disconnecting"} => ptr["inst"] # "null"
    /\ ptr["inst"] # "null" => ptr["screen"] # "null"
    /\ thread = "clearing" => ptr["inst"] = "null"
    /\ \A u \in Users : upc[u] = "act" => u \in readers /\ ptr["inst"] # "null"
Locked ==
    /\ writer <=> \/ thread \in {"disconnecting", "clearing"}
                  \/ audioInput /\ thread \in {"connecting", "await"}
    /\ writer => readers = {}
    /\ thread = "upgrade" => audioInput

(* The inductive invariant.  What it says of the pointers holds until the  *)
(* first misuse, with which a behaviour ends.                              *)
LifeSafe ==
    Departed /\ Promoting /\ Started /\ Kept /\ Joined /\ TerminalLife /\ VncLife /\ RdpLife /\ Locked
LifeInv ==
    /\ LifeTypes /\ ByProtocol /\ Ends /\ OnlyKnownMisuse
    /\ Running => LifeSafe

(* The tuples of variables are always expanded.                            *)
USE DEF setupVars, userVars, threadVars, argvVars, lockVars

(* The steps of a user. Between the test of the pointer and its use an RDP *)
(* user holds the read lock, and the screen of the others is never taken   *)
(* away while there are users, but by the thread of Kubernetes.            *)
LEMMA UserSteps ==
    ASSUME NEW u \in Users, LifeInv,
           JoinRefused(u) \/ Join(u) \/ ActTerminal(u)
           \/ ActRdp(u) \/ ActDone(u) \/ ActVnc(u) \/ ArgvTerminal(u) \/ Leave(u) \/
           LeaveCursor(u) \/ LeaveDone(u)
    PROVE  LifeInv'
<1> USE DEF LifeInv, LifeTypes, ByProtocol, Ends, EndedStops, LifeSafe, Departed, Promoting, Started, Kept,
            Joined, TerminalLife, VncLife, RdpLife, Locked, OnlyKnownMisuse, NoMisuse,
            Terminals, Objects, Users, Running, UserAt
<1>1. CASE JoinRefused(u)
  BY <1>1 DEF JoinRefused
<1>2. CASE Join(u)
  BY <1>2 DEF Join
<1>5. CASE ActTerminal(u)
  BY <1>5 DEF ActTerminal
<1>6. CASE ActRdp(u)
  BY <1>6 DEF ActRdp
<1>7. CASE ActDone(u)
  BY <1>7, LifeConsts DEF ActDone, Use, KnownMisuse
<1>8. CASE ActVnc(u)
  BY <1>8 DEF ActVnc, Use, KnownMisuse
<1>9. CASE ArgvTerminal(u)
  BY <1>9 DEF ArgvTerminal, Use, KnownMisuse
<1>10. CASE Leave(u)
  BY <1>10 DEF Leave
<1>11. CASE LeaveCursor(u)
  <2>1. LifeTypes' /\ ByProtocol' /\ Ends'
    BY <1>11 DEF LeaveCursor, Use
  <2>2. OnlyKnownMisuse'
    BY <1>11 DEF LeaveCursor, Use, KnownMisuse
  <2>3. Running' => Departed' /\ Promoting' /\ Started' /\ Kept' /\ Joined' /\ Locked'
    BY <1>11 DEF LeaveCursor, Use
  <2>4. Running' => TerminalLife'
    BY <1>11 DEF LeaveCursor, Use
  <2>5. Running' => VncLife' /\ RdpLife'
    BY <1>11 DEF LeaveCursor, Use
  <2> QED  BY <2>1, <2>2, <2>3, <2>4, <2>5
<1>12. CASE LeaveDone(u)
  BY <1>12 DEF LeaveDone
<1> QED  BY <1>1, <1>2, <1>5, <1>6, <1>7, <1>8, <1>9, <1>10, <1>11, <1>12

(* The promotion looks for the screen, and for RDP reads it under the lock.*)
LEMMA PromoteSteps ==
    ASSUME LifeInv, PromoteNext
    PROVE  LifeInv'
<1> USE DEF LifeInv, LifeTypes, ByProtocol, Ends, EndedStops, LifeSafe, Departed, Promoting, Started,
            Kept, Joined, TerminalLife, VncLife, RdpLife, Locked, OnlyKnownMisuse, NoMisuse,
            Terminals, Objects, Users, Running, Promoted
<1>1. CASE Promote
  BY <1>1 DEF Promote
<1>2. CASE JoinPending
  BY <1>2, LifeConsts DEF JoinPending
<1>3. CASE SyncPending
  BY <1>3, LifeConsts DEF SyncPending, Use, KnownMisuse
<1> QED  BY <1>1, <1>2, <1>3 DEF PromoteNext

(* The start of the connection by its owner, the credentials it sends, and *)
(* the end of the last user.                                               *)
LEMMA OwnerSteps ==
    ASSUME LifeInv,
           JoinOwner \/ JoinOwnerNoThread \/ ArgvCredentials \/ LastUserGone \/ Terminated
    PROVE  LifeInv'
<1> USE DEF LifeInv, LifeTypes, ByProtocol, Ends, EndedStops, LifeSafe, Departed, Promoting, Started, Kept,
            Joined, TerminalLife, VncLife, RdpLife, Locked, OnlyKnownMisuse, NoMisuse,
            Terminals, Objects, Users, Running, UserAt, Stop
<1>1. CASE JoinOwner
  BY <1>1 DEF JoinOwner, Places
<1>2. CASE JoinOwnerNoThread
  BY <1>2 DEF JoinOwnerNoThread, Stop
<1>3. CASE ArgvCredentials
  BY <1>3 DEF ArgvCredentials, Use, KnownMisuse
<1>4. CASE LastUserGone
  BY <1>4 DEF LastUserGone, Stop
<1>5. CASE Terminated
  BY <1>5 DEF Terminated, Stop
<1> QED  BY <1>1, <1>2, <1>3, <1>4, <1>5

(* The thread wakes the host first, with the settings it was given.        *)
LEMMA WakeSound ==
    ASSUME LifeInv,
           Wake
    PROVE  LifeInv'
<1> USE DEF LifeInv, LifeTypes, ByProtocol, Ends, EndedStops, LifeSafe, Departed, Promoting, Started, Kept,
            Joined, TerminalLife, VncLife, RdpLife, Locked, OnlyKnownMisuse, NoMisuse,
            Terminals, Objects, Users, Running, ThreadAt
<1>1. CASE Wake
  <2>0. LifeTypes'
    <3>1. UNCHANGED <<protocol, audioInput, state, ptr, upc, promo, fpc, readers, writer>>
      BY <1>1 DEF Wake
    <3>2. thread' \in Places /\ woke' \in BOOLEAN
      BY <1>1 DEF Wake, Places
    <3> QED  BY <3>1, <3>2
  <2>1. ByProtocol' /\ Ends'
    BY <1>1 DEF Wake, ThreadUses, Use, Places
  <2>2. OnlyKnownMisuse'
    BY <1>1 DEF Wake, ThreadUses, Use, KnownMisuse
  <2>3. Running' => Departed' /\ Promoting' /\ Started' /\ Kept' /\ Joined' /\ Locked'
    BY <1>1 DEF Wake, ThreadUses, Use
  <2>4. Running' => TerminalLife'
    BY <1>1 DEF Wake, ThreadUses, Use
  <2>5. Running' => VncLife'
    BY <1>1 DEF Wake, ThreadUses, Use
  <2>6. Running' => RdpLife'
    BY <1>1 DEF Wake, ThreadUses, Use
  <2> QED  BY <2>0, <2>1, <2>2, <2>3, <2>4, <2>5, <2>6
<1> QED  BY <1>1

(* The threads of SSH, telnet and Kubernetes: the terminal is there for    *)
(* all that follows; telnet's may be gone once the free handler runs.      *)
LEMMA TerminalSteps ==
    ASSUME LifeInv,
           TerminalNext
    PROVE  LifeInv'
<1> USE DEF LifeInv, LifeTypes, ByProtocol, Ends, EndedStops, LifeSafe, Departed, Promoting, Started, Kept,
            Joined, TerminalLife, VncLife, RdpLife, Locked, OnlyKnownMisuse, NoMisuse,
            Terminals, Objects, Users, Running, ThreadAt
<1>1. CASE OpenTerminal
  BY <1>1 DEF OpenTerminal, ThreadUses, Stop, Use, KnownMisuse, Places
<1>2. CASE SshPrompt
  BY <1>2 DEF SshPrompt, ThreadUses, Use, KnownMisuse, Places
<1>3. CASE SshAnswered
  BY <1>3 DEF SshAnswered, ThreadUses, Use, KnownMisuse, Places
<1>4. CASE TerminalConnected
  BY <1>4 DEF TerminalConnected, ThreadUses, Stop, Use, KnownMisuse, Places
<1>5. CASE TerminalLoopEnds
  BY <1>5 DEF TerminalLoopEnds, Stop, Use, KnownMisuse, Places
<1>6. CASE TerminalJoinInput
  BY <1>6 DEF TerminalJoinInput, Places
<1>7. CASE KubernetesRelease
  BY <1>7 DEF KubernetesRelease, Places
<1>8. CASE InputEnds
  BY <1>8 DEF InputEnds, Stop, Use, KnownMisuse
<1> QED  BY <1>1, <1>2, <1>3, <1>4, <1>5, <1>6, <1>7, <1>8 DEF TerminalNext

(* The threads of VNC and RDP: RDP takes the display and the instance away *)
(* only under the write lock.                                              *)
LEMMA GraphicSteps ==
    ASSUME LifeInv,
           GraphicNext
    PROVE  LifeInv'
<1> USE DEF LifeInv, LifeTypes, ByProtocol, Ends, EndedStops, LifeSafe, Departed, Promoting, Started, Kept,
            Joined, TerminalLife, VncLife, RdpLife, Locked, OnlyKnownMisuse, NoMisuse,
            Terminals, Objects, Users, Running, ThreadAt
<1>1. CASE AskCredentials
  BY <1>1 DEF AskCredentials, ThreadUses, Use, KnownMisuse, Places
<1>2. CASE CredentialsCome
  BY <1>2 DEF CredentialsCome, ThreadUses, Use, KnownMisuse, Places
<1>3. CASE VncConnect
  BY <1>3 DEF VncConnect, ThreadUses, Stop, Use, KnownMisuse, Places
<1>4. CASE VncPublish
  BY <1>4 DEF VncPublish, ThreadUses, Use, KnownMisuse, Places
<1>5. CASE VncDisplay
  BY <1>5 DEF VncDisplay, ThreadUses, Use, KnownMisuse, Places
<1>6. CASE VncLoopEnds
  BY <1>6 DEF VncLoopEnds, ThreadUses, Stop, Use, KnownMisuse, Places
<1>7. CASE RdpPrepare
  BY <1>7 DEF RdpPrepare, ThreadUses, Stop, Use, KnownMisuse, Places
<1>8. CASE RdpDisplay
  BY <1>8 DEF RdpDisplay, RdpFree, ThreadUses, Use, KnownMisuse, Places
<1>9. CASE RdpConnect
  <2>1. LifeTypes' /\ ByProtocol' /\ Ends'
    BY <1>9, LifeConsts DEF RdpConnect, ThreadUses, Stop, Use, Places
  <2>2. OnlyKnownMisuse'
    BY <1>9 DEF RdpConnect, ThreadUses, Stop, Use, KnownMisuse
  <2>3. Running' => Departed' /\ Promoting' /\ Started' /\ Kept' /\ Joined' /\ Locked'
    BY <1>9, LifeConsts DEF RdpConnect, ThreadUses, Stop, Use, Places
  <2>4. Running' => TerminalLife' /\ VncLife' /\ RdpLife'
    BY <1>9, LifeConsts DEF RdpConnect, ThreadUses, Stop, Use, Places
  <2> QED  BY <2>1, <2>2, <2>3, <2>4
<1>10. CASE RdpPublish
  BY <1>10 DEF RdpPublish, RdpFree, ThreadUses, Use, KnownMisuse, Places
<1>11. CASE RdpLoopEnds
  BY <1>11 DEF RdpLoopEnds, ThreadUses, Stop, Use, KnownMisuse, Places
<1>12. CASE RdpLockToDisconnect
  BY <1>12 DEF RdpLockToDisconnect, RdpFree, Places
<1>13. CASE RdpDisconnect
  <2>1. LifeTypes' /\ ByProtocol' /\ Ends'
    BY <1>13 DEF RdpDisconnect, Use, Places
  <2>2. OnlyKnownMisuse'
    BY <1>13 DEF RdpDisconnect, Use, KnownMisuse
  <2>3. Running' => Departed' /\ Promoting' /\ Started' /\ Kept' /\ Joined' /\ Locked'
    BY <1>13 DEF RdpDisconnect, Use
  <2>4. Running' => TerminalLife' /\ VncLife' /\ RdpLife'
    BY <1>13 DEF RdpDisconnect, Use
  <2> QED  BY <2>1, <2>2, <2>3, <2>4
<1>14. CASE RdpPreConnect
  BY <1>14, LifeConsts DEF RdpPreConnect, ThreadUses, Use, KnownMisuse, Places
<1>15. CASE RdpUpgrade
  <2>1. LifeTypes' /\ ByProtocol' /\ Ends'
    BY <1>15 DEF RdpUpgrade, RdpFree, ThreadUses, Use, Places
  <2>2. OnlyKnownMisuse'
    BY <1>15 DEF RdpUpgrade, RdpFree, ThreadUses, Use, KnownMisuse
  <2>3. Running' => Departed' /\ Promoting' /\ Started' /\ Kept' /\ Joined' /\ Locked'
    BY <1>15 DEF RdpUpgrade, RdpFree, ThreadUses, Use, Places
  <2>4. Running' => TerminalLife' /\ VncLife' /\ RdpLife'
    BY <1>15 DEF RdpUpgrade, RdpFree, ThreadUses, Use, Places
  <2> QED  BY <2>1, <2>2, <2>3, <2>4
<1>16. CASE RdpDisconnected
  <2>1. LifeTypes' /\ ByProtocol' /\ Ends'
    BY <1>16 DEF RdpDisconnected, Places
  <2>2. OnlyKnownMisuse'
    BY <1>16 DEF RdpDisconnected, KnownMisuse
  <2>3. Running' => Departed' /\ Promoting' /\ Started' /\ Kept' /\ Joined' /\ Locked'
    BY <1>16 DEF RdpDisconnected, Places
  <2>4. Running' => TerminalLife' /\ VncLife' /\ RdpLife'
    BY <1>16 DEF RdpDisconnected, Places
  <2> QED  BY <2>1, <2>2, <2>3, <2>4
<1> HIDE DEF LifeInv
<1> QED  BY <1>1, <1>2, <1>3, <1>4, <1>5, <1>6, <1>7, <1>8, <1>9, <1>10, <1>11, <1>12, <1>13,
            <1>14, <1>15, <1>16 DEF GraphicNext

(* guac_client_free and the free handlers: what they release is used by no *)
(* thread that they have joined.                                           *)
LEMMA FreeSteps ==
    ASSUME LifeInv,
           FreeNext
    PROVE  LifeInv'
<1> USE DEF LifeInv, LifeTypes, ByProtocol, Ends, EndedStops, LifeSafe, Departed, Promoting, Started, Kept,
            Joined, TerminalLife, VncLife, RdpLife, Locked, OnlyKnownMisuse, NoMisuse,
            Terminals, Objects, Users, Running, FreeAt, FreeFrame
<1>1. CASE FreeBegin
  BY <1>1 DEF FreeBegin
<1>10. CASE FreeLock
  BY <1>10 DEF FreeLock
<1>2. CASE FreeUsersGone
  BY <1>2 DEF FreeUsersGone
<1>3. CASE FreeRdp
  BY <1>3 DEF FreeRdp
<1>4. CASE FreeVnc
  BY <1>4 DEF FreeVnc
<1>5. CASE FreeSsh
  BY <1>5 DEF FreeSsh
<1>6. CASE FreeTelnet
  BY <1>6 DEF FreeTelnet, Use, KnownMisuse
<1>7. CASE FreeKubernetes
  BY <1>7 DEF FreeKubernetes
<1>8. CASE FreeJoin
  BY <1>8 DEF FreeJoin, KnownMisuse
<1>9. CASE FreeRelease
  BY <1>9 DEF FreeRelease
<1> QED  BY <1>1, <1>2, <1>3, <1>4, <1>5, <1>6, <1>7, <1>8, <1>9, <1>10 DEF FreeNext, FreeHandler

-----------------------------------------------------------------------------
(* LifeInv holds when the plugin is loaded, and every step keeps it.       *)
LEMMA LifeInductive == LifeSpec => []LifeInv
<1>1. LifeInit => LifeInv
  BY LifeConsts DEF LifeInit, LifeInv, LifeTypes, Places, ByProtocol, Ends, EndedStops, LifeSafe,
       Departed, Promoting, Started, Kept, Joined, TerminalLife, VncLife, RdpLife, Locked, OnlyKnownMisuse,
       Objects, Users, Running
<1>2. ASSUME LifeInv, LifeNext  PROVE LifeInv'
  <2>1. CASE UserNext
    BY <1>2, <2>1, UserSteps DEF UserNext
  <2>2. CASE JoinOwner \/ JoinOwnerNoThread \/ ArgvCredentials \/ LastUserGone \/ Terminated
    BY <1>2, <2>2, OwnerSteps
  <2>3. CASE Wake
    BY <1>2, <2>3, WakeSound
  <2>4. CASE TerminalNext
    BY <1>2, <2>4, TerminalSteps
  <2>5. CASE GraphicNext
    BY <1>2, <2>5, GraphicSteps
  <2>6. CASE FreeNext
    BY <1>2, <2>6, FreeSteps
  <2>7. CASE PromoteNext
    BY <1>2, <2>7, PromoteSteps
  <2> QED  BY <1>2, <2>1, <2>2, <2>3, <2>4, <2>5, <2>6, <2>7 DEF LifeNext
<1>3. LifeInv /\ UNCHANGED lifeVars => LifeInv'
  BY DEF lifeVars, LifeInv, LifeTypes, ByProtocol, Ends, EndedStops, LifeSafe, Departed,
         Promoting, Started, Kept, Joined, TerminalLife, VncLife, RdpLife, Locked, OnlyKnownMisuse, Running
<1> QED  BY <1>1, <1>2, <1>3, PTL DEF LifeSpec

(* No pointer of a plugin is followed that is NULL or left to a released   *)
(* object, but in the cases of KnownMisuse: for every protocol and any     *)
(* number of users, in whatever order they come, act and leave and the     *)
(* threads create and release (client.c, user.c and the client threads of  *)
(* the five plugins).                                                      *)
THEOREM NoOtherMisuse == LifeSpec => []OnlyKnownMisuse
<1>1. LifeInv => OnlyKnownMisuse
  BY DEF LifeInv
<1> QED  BY <1>1, LifeInductive, PTL

(* A connection whose client thread has ended is stopping, unless its host *)
(* could not be woken, for every protocol and any number of users.         *)
THEOREM EndedThreadStops == LifeSpec => []EndedStops
<1>1. LifeInv => EndedStops
  BY DEF LifeInv, Ends
<1> QED  BY <1>1, LifeInductive, PTL

(* An RDP display is never taken away under a user or a promotion that     *)
(* holds the lock to use it: the write lock excludes the readers, also     *)
(* where the client thread keeps it while it connects (rdp/rdp.c,          *)
(* rdp/user.c), for any number of users.                                   *)
THEOREM DisplayNotTakenAway ==
    LifeSpec => [](Running /\ protocol = "rdp" /\ (promo = "sync" \/ \E u \in Users : upc[u] = "act")
                     => ~writer /\ ptr["screen"] = "live")
<1>1. LifeInv => (Running /\ protocol = "rdp" /\ (promo = "sync" \/ \E u \in Users : upc[u] = "act")
                    => ~writer /\ ptr["screen"] = "live")
  BY DEF LifeInv, LifeTypes, LifeSafe, Departed, Promoting, Kept, RdpLife, Locked, Objects
<1> QED  BY <1>1, LifeInductive, PTL

-----------------------------------------------------------------------------
(* The print jobs of RDP.                                                  *)
USE DEF printVars

(* The values of the variables.                                            *)
PrintJobs ==
    [live : BOOLEAN, state : States, infd : BOOLEAN, outfd : BOOLEAN, received : Nat,
     stream : BOOLEAN, filename : {"default", "title"}, cut : BOOLEAN]
Filters == [run : {"none", "run", "exited", "dead"}, in : Seq(Nat), out : Seq(Nat)]
Owners ==
    [here : BOOLEAN, begun : BOOLEAN, name : {"default", "title"}, recv : Seq(Nat),
     owed : Nat, late : Nat, credited : Nat, ended : BOOLEAN]

PrintTypes ==
    /\ job \in PrintJobs /\ filter \in Filters /\ owner \in Owners
    /\ rpc \in {"idle", "write", "join", "leaving", "disconnected"}
    /\ tpc \in {"none", "read", "wait", "blocked", "woken", "send", "end", "done"}
    /\ tbuf \in Nat /\ jobs \in Nat /\ writes \in Nat

(* Where the threads and the filter are, by the state of the job.          *)
Phases ==
    /\ ~job.live => job = NoJob
    /\ (tpc = "none") <=> ~job.live
    /\ (filter.run = "none") <=> ~job.live
    /\ rpc \in {"write", "join", "leaving"} => job.live
    /\ job.live /\ job.state = "CLOSED" => job.cut
    /\ job.live /\ owner.ended => tpc = "done"

(* How a job that nothing cut short comes to its end.                      *)
Endings ==
    job.live /\ ~job.cut =>
        /\ ~job.outfd => tpc = "done"
        /\ ~job.infd => rpc = "join" \/ tpc = "done"
        /\ tpc \in {"end", "done"} => filter.run \in {"dead", "exited"} /\ filter.out = <<>>
        /\ filter.run = "exited" => rpc = "join" /\ filter.in = <<>>

(* The output thread holds a page it has read and not yet sent.            *)
Holds == tpc \in {"wait", "blocked", "woken", "send"}
Held == IF Holds THEN 1 ELSE 0

(* Nothing is printed before the stream of the owner has begun.            *)
Begun ==
    /\ job.live /\ owner.begun => job.received > 0
    /\ job.live /\ job.received > 0 /\ job.infd => owner.begun
    /\ rpc = "write" => job.received > 0
    /\ owner.recv # <<>> => owner.begun
    /\ Holds \/ filter.out # <<>> \/ filter.in # <<>> => owner.begun

(* An answer is owed, has come and not been used, or is being used.        *)
Tokens ==
    owner.owed + (IF job.state = "ACK_RECEIVED" THEN 1 ELSE 0) + (IF tpc = "send" THEN 1 ELSE 0)
        <= (IF owner.begun THEN 1 ELSE 0) + owner.credited

(* What the thread reads may still get to the owner.                       *)
Flowing == Holds \/ (tpc = "read" /\ job.outfd)

(* The pages are numbered by the writes of the RDP thread; the owner, the  *)
(* buffer of the thread and the two pipes hold consecutive ones.           *)
ChainFrom(first) ==
    LET sent == Len(owner.recv)
        read == sent + Held
        made == read + Len(filter.out)
    IN /\ \A i \in 1 .. sent : owner.recv[i] = first + i - 1
       /\ Holds => tbuf = first + sent
       /\ Flowing =>
             /\ \A i \in 1 .. Len(filter.out) : filter.out[i] = first + read + i - 1
             /\ \A i \in 1 .. Len(filter.in) : filter.in[i] = first + made + i - 1
             /\ job.infd /\ filter.run = "run" => writes + 1 = first + made + Len(filter.in)
Chain == \E first \in Int : ChainFrom(first)

(* No page is lost unless the job is cut short or the filter crashes.      *)
Counted ==
    job.live /\ ~job.cut /\ filter.run \in {"run", "exited"} =>
        Len(owner.recv) + Held + Len(filter.out) + Len(filter.in)
            + (IF rpc = "write" THEN 1 ELSE 0) = job.received

(* The inductive invariant of the print job.                               *)
PrintInv == PrintTypes /\ Phases /\ Endings /\ Begun /\ Tokens /\ Chain /\ Counted

-----------------------------------------------------------------------------
(* What holds of the lengths of the sequences.                             *)
LEMMA PrintLens ==
    PrintTypes =>
        /\ owner.recv \in Seq(Nat) /\ filter.out \in Seq(Nat) /\ filter.in \in Seq(Nat)
        /\ Len(owner.recv) \in Nat /\ Len(filter.out) \in Nat /\ Len(filter.in) \in Nat
        /\ Held \in Nat
BY LenProperties DEF PrintTypes, Owners, Filters, Held

(* No job, no filter, nothing received: the state in which the printer is  *)
(* announced.                                                              *)
LEMMA PrintInitially == PrintInit => PrintInv
<1> SUFFICES ASSUME PrintInit  PROVE PrintInv
  OBVIOUS
<1> <<>> \in Seq(Nat) /\ Len(<<>>) = 0
  BY EmptySeq
<1>0. /\ job = NoJob /\ filter = NoFilter /\ owner = NewOwner
      /\ rpc = "idle" /\ tpc = "none" /\ tbuf = 0 /\ jobs = 0 /\ writes = 0
  BY DEF PrintInit
<1>1. job \in PrintJobs /\ ~job.live /\ ~job.cut /\ job.state = "CLOSED"
  BY <1>0 DEF NoJob, PrintJobs, States
<1>2. filter \in Filters /\ filter.run = "none" /\ filter.in = <<>> /\ filter.out = <<>>
  BY <1>0 DEF NoFilter, Filters
<1>3. /\ owner \in Owners /\ owner.recv = <<>> /\ owner.owed = 0 /\ owner.credited = 0
      /\ ~owner.begun
  BY <1>0 DEF NewOwner, Owners
<1>4. PrintTypes /\ Phases /\ Endings
  BY <1>0, <1>1, <1>2, <1>3 DEF PrintTypes, Phases, Endings
<1>5. Begun /\ Tokens /\ Counted
  BY <1>0, <1>1, <1>2, <1>3 DEF Begun, Tokens, Counted, Holds
<1>6. ChainFrom(0)
  BY <1>0, <1>1, <1>2, <1>3 DEF ChainFrom, Flowing, Holds
<1> QED  BY <1>4, <1>5, <1>6 DEF PrintInv, Chain

(* A step that ends the job by killing it, whoever takes it: the thread    *)
(* may send what it holds, and nothing else gets to the owner.             *)
KillEffect ==
    /\ job.live /\ job' \in PrintJobs /\ job'.live /\ job'.state = "CLOSED" /\ job'.cut
    /\ ~job'.infd /\ ~job'.outfd /\ job'.received >= job.received
    /\ filter' \in Filters /\ filter'.run = "dead" /\ filter'.in = <<>> /\ filter'.out = filter.out
    /\ owner' \in Owners /\ owner'.recv = owner.recv /\ owner'.begun = owner.begun
    /\ owner'.ended = owner.ended /\ owner'.credited = owner.credited /\ owner'.owed <= owner.owed
    /\ rpc' \in {"idle", "write", "join", "leaving", "disconnected"}
    /\ rpc' = "write" => job'.received > 0
    /\ tpc' = tpc \/ (tpc = "blocked" /\ tpc' = "woken") \/ (tpc = "send" /\ tpc' = "read")
          \/ (tpc = "end" /\ tpc' = "done")
    /\ UNCHANGED <<tbuf, writes>> /\ jobs' \in Nat

(* guac_rdp_print_job_kill, whoever calls it, keeps the invariant: with    *)
(* both descriptors closed nothing is added to the chain, and the count of *)
(* the pages binds no longer.                                              *)
LEMMA KillSound == PrintInv /\ KillEffect => PrintInv'
<1> SUFFICES ASSUME PrintInv, KillEffect  PROVE PrintInv'
  OBVIOUS
<1>0. PrintTypes /\ Phases /\ Endings /\ Begun /\ Tokens /\ Chain /\ Counted
  BY DEF PrintInv
<1>1. PrintTypes'
  BY <1>0 DEF KillEffect, PrintTypes
<1>2. Phases'
  BY <1>0 DEF KillEffect, Phases
<1>3. Endings' /\ Counted'
  BY DEF KillEffect, Endings, Counted
<1>4. job.received \in Nat /\ job'.received \in Nat
  BY <1>0, <1>1 DEF PrintTypes, PrintJobs
<1>5. Begun'
  BY <1>0, <1>4 DEF KillEffect, Begun, Holds
<1>6. Tokens'
  <2>1. /\ owner.owed \in Nat /\ owner'.owed \in Nat /\ owner.credited \in Nat
    BY <1>0, <1>1 DEF PrintTypes, Owners
  <2>2. tpc' = "send" => tpc = "send"
    BY DEF KillEffect
  <2> QED  BY <1>0, <2>1, <2>2 DEF KillEffect, Tokens
<1>7. Chain'
  <2>1. PICK first \in Int : ChainFrom(first)
    BY <1>0 DEF Chain
  <2>2. (Holds' => Holds) /\ ~job'.outfd /\ Len(<<>>) = 0 /\ (Holds => Flowing)
    BY EmptySeq DEF KillEffect, Holds, Flowing
  <2>3. Holds' => Held' = Held
    BY <2>2 DEF Held
  <2>4. Flowing' => Holds'
    BY <2>2 DEF Flowing
  <2>5. ChainFrom(first)'
    BY <2>1, <2>2, <2>3, <2>4 DEF ChainFrom, KillEffect
  <2> QED  BY <2>5 DEF Chain
<1> QED  BY <1>1, <1>2, <1>3, <1>5, <1>6, <1>7 DEF PrintInv

(* guac_rdp_print_job_kill, as the fields that it sets.                    *)
LEMMA KilledFields ==
    ASSUME NEW j \in PrintJobs, NEW k, k = [Killed(j) EXCEPT !.state = "CLOSED"]
    PROVE  /\ k \in PrintJobs /\ k.live = j.live /\ k.state = "CLOSED" /\ k.cut
           /\ ~k.infd /\ ~k.outfd /\ k.received = j.received
BY DEF Killed, PrintJobs, States

(* The kill of the filter process: the input that it had not read is lost, *)
(* what it wrote stays in the pipe.                                        *)
LEMMA FilterKilled ==
    PrintTypes /\ filter.run # "none" /\ KillFilter =>
        filter' \in Filters /\ filter'.run = "dead" /\ filter'.in = <<>> /\ filter'.out = filter.out
<1> SUFFICES ASSUME PrintTypes, filter.run # "none", KillFilter
             PROVE  /\ filter' \in Filters /\ filter'.run = "dead" /\ filter'.in = <<>>
                    /\ filter'.out = filter.out
  OBVIOUS
<1>1. filter' = [filter EXCEPT !.run = "dead", !.in = <<>>]
  BY DEF KillFilter, PrintTypes, Filters
<1>2. <<>> \in Seq(Nat)
  BY EmptySeq
<1> QED  BY <1>1, <1>2 DEF PrintTypes, Filters

-----------------------------------------------------------------------------
(* The RDP thread.                                                         *)

LEMMA CreateSound == PrintInv /\ JobCreate => PrintInv'
<1> SUFFICES ASSUME PrintInv, JobCreate  PROVE PrintInv'
  OBVIOUS
<1>0. PrintTypes /\ Phases /\ Endings /\ Begun /\ Tokens /\ Chain /\ Counted
  BY DEF PrintInv
<1>1. CASE UNCHANGED <<job, filter, tpc, owner>>
  <2>1. UNCHANGED <<job, filter, tpc, owner, rpc, tbuf, writes>> /\ jobs' = jobs + 1
    BY <1>1 DEF JobCreate
  <2>2. PrintTypes'
    BY <1>0, <2>1 DEF PrintTypes
  <2>3. Phases' /\ Endings' /\ Begun' /\ Tokens' /\ Counted'
    BY <1>0, <2>1 DEF Phases, Endings, Begun, Tokens, Counted, Holds, Held
  <2>4. Chain'
    BY <1>0, <2>1 DEF Chain, ChainFrom, Flowing, Holds, Held
  <2> QED  BY <2>2, <2>3, <2>4 DEF PrintInv
<1>2. CASE /\ job' = NewJob
           /\ filter' = [NoFilter EXCEPT !.run = "run"]
           /\ tpc' = "read"
           /\ owner' = [NewOwner EXCEPT !.late = owner.late + owner.owed]
  <2>0. jobs' = jobs + 1 /\ rpc = "idle" /\ UNCHANGED <<rpc, tbuf, writes>>
    BY DEF JobCreate
  <2> <<>> \in Seq(Nat) /\ Len(<<>>) = 0
    BY EmptySeq
  <2>1. /\ job' \in PrintJobs /\ job'.live /\ ~job'.cut /\ job'.state = "WAITING_FOR_ACK"
        /\ job'.infd /\ job'.outfd /\ job'.received = 0
    BY <1>2 DEF NewJob, PrintJobs, States
  <2>2. filter' \in Filters /\ filter'.run = "run" /\ filter'.in = <<>> /\ filter'.out = <<>>
    BY <1>2 DEF NoFilter, Filters
  <2>3. owner.late + owner.owed \in Nat
    BY <1>0 DEF PrintTypes, Owners
  <2>4. /\ owner' \in Owners /\ owner'.recv = <<>> /\ owner'.owed = 0 /\ owner'.credited = 0
        /\ ~owner'.begun /\ ~owner'.ended
    BY <1>2, <2>3 DEF NewOwner, Owners
  <2>5. PrintTypes'
    BY <1>0, <1>2, <2>0, <2>1, <2>2, <2>4 DEF PrintTypes
  <2>6. Phases' /\ Endings'
    BY <1>2, <2>0, <2>1, <2>2, <2>4 DEF Phases, Endings
  <2>7. Holds' = FALSE /\ Held' = 0
    BY <1>2 DEF Holds, Held
  <2>11. Begun'
    BY <2>0, <2>1, <2>2, <2>4, <2>7 DEF Begun
  <2>12. Tokens'
    BY <1>2, <2>1, <2>4 DEF Tokens
  <2>13. Counted'
    <3>1. Len(owner'.recv) = 0 /\ Len(filter'.out) = 0 /\ Len(filter'.in) = 0
      BY <2>2, <2>4
    <3> QED  BY <2>0, <2>1, <2>7, <3>1 DEF Counted
  <2>8. PICK first \in Int : first = writes' + 1
    BY <1>0, <2>0 DEF PrintTypes
  <2>9. ChainFrom(first)'
    <3>1. Len(owner'.recv) = 0 /\ Len(filter'.out) = 0 /\ Len(filter'.in) = 0
      BY <2>2, <2>4
    <3> QED  BY <2>7, <2>8, <3>1 DEF ChainFrom
  <2>10. Chain'
    BY <2>9 DEF Chain
  <2> QED  BY <2>5, <2>6, <2>10, <2>11, <2>12, <2>13 DEF PrintInv
<1> QED  BY <1>1, <1>2 DEF JobCreate

(* guac_rdpdr_process_print_job_write up to the write(2). The first data   *)
(* begins the stream of the owner, which owes the first answer from then   *)
(* on; without an owner the job is killed.                                 *)
LEMMA WriteSound == PrintInv /\ JobWrite => PrintInv'
<1> SUFFICES ASSUME PrintInv, JobWrite  PROVE PrintInv'
  OBVIOUS
<1>0. PrintTypes /\ Phases /\ Endings /\ Begun /\ Tokens /\ Chain /\ Counted
  BY DEF PrintInv
<1>1. rpc = "idle" /\ UNCHANGED <<tbuf, jobs>> /\ writes \in Nat
  BY <1>0 DEF JobWrite, PrintTypes
<1>2. CASE ~job.live
  <2>1. writes' = writes + 1 /\ UNCHANGED <<rpc, job, owner, filter, tpc>>
    BY <1>2 DEF JobWrite
  <2>2. PrintTypes'
    BY <1>0, <1>1, <2>1 DEF PrintTypes
  <2>3. Phases' /\ Endings' /\ Begun' /\ Tokens' /\ Counted'
    BY <1>0, <2>1 DEF Phases, Endings, Begun, Tokens, Counted, Holds, Held
  <2>4. tpc = "none"
    BY <1>0, <1>2 DEF Phases
  <2>5. Chain'
    BY <1>0, <1>1, <2>1, <2>4 DEF Chain, ChainFrom, Flowing, Holds, Held
  <2> QED  BY <2>2, <2>3, <2>5 DEF PrintInv
<1>3. CASE job.live
  <2>1. PICK titled \in BOOLEAN :
              LET j == IF job.received = 0 THEN Titled(job, titled) ELSE job
                  k == [j EXCEPT !.received = @ + 1] IN
              /\ rpc' = "write"
              /\ UNCHANGED writes
              /\ IF job.received = 0 /\ ~owner.here
                 THEN Kill(k) /\ UNCHANGED owner
                 ELSE /\ job' = k
                      /\ owner' = IF job.received = 0
                                  THEN [owner EXCEPT !.begun = TRUE, !.name = k.filename, !.owed = @ + 1]
                                  ELSE owner
                      /\ UNCHANGED <<filter, tpc>>
    BY <1>3 DEF JobWrite
  <2> DEFINE j == IF job.received = 0 THEN Titled(job, titled) ELSE job
             k == [j EXCEPT !.received = @ + 1]
  <2>2. job \in PrintJobs /\ job.received \in Nat
    BY <1>0 DEF PrintTypes, PrintJobs
  <2>3. j = job \/ j = [job EXCEPT !.filename = "title"]
    BY DEF Titled
  <2>4. /\ j \in PrintJobs /\ j.live = job.live /\ j.state = job.state /\ j.infd = job.infd
        /\ j.outfd = job.outfd /\ j.cut = job.cut /\ j.received = job.received
    <3> HIDE DEF j
    <3> QED  BY <2>2, <2>3 DEF PrintJobs
  <2> HIDE DEF j
  <2>5. /\ k \in PrintJobs /\ k.live = job.live /\ k.state = job.state /\ k.infd = job.infd
        /\ k.outfd = job.outfd /\ k.cut = job.cut /\ k.received = job.received + 1
        /\ k.filename \in {"default", "title"}
    <3>1. k = [j EXCEPT !.received = j.received + 1] /\ j.received + 1 \in Nat
      BY <2>2, <2>4
    <3> HIDE DEF k
    <3> QED  BY <2>4, <3>1 DEF PrintJobs
  <2>6. /\ rpc' = "write" /\ UNCHANGED writes
        /\ \/ /\ Kill(k) /\ UNCHANGED owner
           \/ /\ job' = k /\ UNCHANGED <<filter, tpc>>
              /\ \/ /\ job.received = 0
                    /\ owner' = [owner EXCEPT !.begun = TRUE, !.name = k.filename,
                                              !.owed = owner.owed + 1]
                 \/ job.received # 0 /\ owner' = owner
    BY <2>1 DEF j
  <2> HIDE DEF k
  <2>7. CASE Kill(k) /\ UNCHANGED owner
    <3>1. job' = [Killed(k) EXCEPT !.state = "CLOSED"]
          /\ KillFilter
      <4>1. job' = [Killed(k) EXCEPT !.state = "CLOSED"]
        BY <2>7 DEF Kill, SetState
      <4> QED  BY <2>7, <4>1 DEF Kill
    <3>2. tpc' = tpc \/ (tpc = "blocked" /\ tpc' = "woken")
      BY <2>7 DEF Kill, SetState
    <3>3. /\ job' \in PrintJobs /\ job'.live = k.live /\ job'.state = "CLOSED" /\ job'.cut
          /\ ~job'.infd /\ ~job'.outfd /\ job'.received = k.received
      BY <2>5, <3>1, KilledFields
    <3>4. /\ filter' \in Filters /\ filter'.run = "dead" /\ filter'.in = <<>>
          /\ filter'.out = filter.out
      BY <1>0, <1>3, <3>1, FilterKilled DEF Phases
    <3>5. owner \in Owners /\ owner.owed \in Nat
      BY <1>0 DEF PrintTypes, Owners
    <3>6. KillEffect
      BY <1>0, <1>1, <1>3, <2>2, <2>5, <2>6, <2>7, <3>2, <3>3, <3>4, <3>5 DEF KillEffect, PrintTypes
    <3> QED  BY <3>6, KillSound
  <2>8. CASE /\ job' = k /\ UNCHANGED <<filter, tpc>>
             /\ \/ /\ job.received = 0
                   /\ owner' = [owner EXCEPT !.begun = TRUE, !.name = k.filename,
                                             !.owed = owner.owed + 1]
                \/ job.received # 0 /\ owner' = owner
    <3>1. /\ owner \in Owners /\ owner.owed \in Nat /\ owner.credited \in Nat
      BY <1>0 DEF PrintTypes, Owners
    <3>2. /\ owner' \in Owners /\ owner'.recv = owner.recv /\ owner'.ended = owner.ended
          /\ owner'.credited = owner.credited
          /\ \/ job.received = 0 /\ owner'.begun /\ owner'.owed = owner.owed + 1
             \/ job.received # 0 /\ owner'.begun = owner.begun /\ owner'.owed = owner.owed
      <4>3. CASE job.received # 0 /\ owner' = owner
        BY <3>1, <4>3
      <4>4. CASE /\ job.received = 0
                 /\ owner' = [owner EXCEPT !.begun = TRUE, !.name = k.filename,
                                           !.owed = owner.owed + 1]
        <5>1. owner.owed + 1 \in Nat
          BY <3>1
        <5> QED  BY <2>5, <3>1, <4>4, <5>1 DEF Owners
      <4> QED  BY <2>8, <4>3, <4>4
    <3>3. PrintTypes'
      BY <1>0, <1>1, <2>5, <2>6, <2>8, <3>2 DEF PrintTypes
    <3>4. Phases' /\ Endings'
      BY <1>0, <1>1, <1>3, <2>5, <2>6, <2>8, <3>2 DEF Phases, Endings
    <3>5. Begun'
      BY <1>0, <1>1, <1>3, <2>2, <2>5, <2>6, <2>8, <3>2 DEF Begun, Holds
    <3>6. Tokens'
      <4>1. job.received = 0 => ~owner.begun
        BY <1>0, <1>3 DEF Begun
      <4>2. CASE job.received = 0 /\ owner'.begun /\ owner'.owed = owner.owed + 1
        BY <1>0, <2>5, <2>8, <3>1, <3>2, <4>1, <4>2 DEF Tokens
      <4>3. CASE job.received # 0 /\ owner'.begun = owner.begun /\ owner'.owed = owner.owed
        BY <1>0, <2>5, <2>8, <3>1, <3>2, <4>3 DEF Tokens
      <4> QED  BY <3>2, <4>2, <4>3
    <3>7. Chain'
      <4>1. PICK first \in Int : ChainFrom(first)
        BY <1>0 DEF Chain
      <4>2. /\ Holds' = Holds /\ Held' = Held /\ Flowing' = Flowing
            /\ filter' = filter /\ writes' = writes /\ tbuf' = tbuf
            /\ job'.infd = job.infd
        BY <1>1, <2>5, <2>6, <2>8 DEF Flowing, Holds, Held
      <4>3. ChainFrom(first)'
        BY <3>2, <4>1, <4>2 DEF ChainFrom
      <4> QED  BY <4>3 DEF Chain
    <3>8. Counted'
      <4>1. Len(owner.recv) \in Nat /\ Len(filter.out) \in Nat /\ Len(filter.in) \in Nat /\ Held \in Nat
        BY <1>0, PrintLens
      <4>2. Held' = Held
        BY <2>8 DEF Held, Holds
      <4>3. /\ job'.live = job.live /\ job'.cut = job.cut /\ filter' = filter
            /\ job'.received = job.received + 1 /\ job.received \in Nat
            /\ rpc = "idle" /\ rpc' = "write" /\ owner'.recv = owner.recv
        BY <1>1, <2>2, <2>5, <2>6, <2>8, <3>2
      <4>4. CASE job.live /\ ~job.cut /\ filter.run \in {"run", "exited"}
        <5> DEFINE n == Len(owner.recv) + Held + Len(filter.out) + Len(filter.in)
        <5>1. n \in Nat /\ n + 0 = job.received
          <6>1. n \in Nat
            <7> DEFINE a == Len(owner.recv)
                       b == Held
                       c == Len(filter.out)
                       d == Len(filter.in)
            <7>1. a \in Nat /\ b \in Nat /\ c \in Nat /\ d \in Nat
              BY <4>1
            <7> HIDE DEF a, b, c, d
            <7>2. a + b + c + d \in Nat
              BY <7>1
            <7> QED  BY <7>2 DEF a, b, c, d
          <6>2. n + 0 = job.received
            BY <1>0, <4>3, <4>4 DEF Counted
          <6> QED  BY <6>1, <6>2
        <5>2. n + 1 = job'.received => Counted'
          BY <4>2, <4>3 DEF Counted
        <5> HIDE DEF n
        <5> QED  BY <4>3, <5>1, <5>2
      <4>5. CASE ~(job.live /\ ~job.cut /\ filter.run \in {"run", "exited"})
        BY <4>3, <4>5 DEF Counted
      <4> QED  BY <4>4, <4>5
    <3> QED  BY <3>3, <3>4, <3>5, <3>6, <3>7, <3>8 DEF PrintInv
  <2> QED  BY <2>6, <2>7, <2>8
<1> QED  BY <1>2, <1>3

(* The write(2) returns: the page becomes the last of the chain, or the    *)
(* descriptor was closed or the filter dead, and the chain has no end to   *)
(* be kept.                                                                *)
LEMMA WrittenSound == PrintInv /\ JobWritten => PrintInv'
<1> SUFFICES ASSUME PrintInv, JobWritten  PROVE PrintInv'
  OBVIOUS
<1>0. PrintTypes /\ Phases /\ Endings /\ Begun /\ Tokens /\ Chain /\ Counted
  BY DEF PrintInv
<1>1. /\ rpc = "write" /\ rpc' = "idle" /\ writes \in Nat /\ writes' = writes + 1
      /\ UNCHANGED <<job, tpc, tbuf, owner, jobs>> /\ job.live
  BY <1>0 DEF JobWritten, PrintTypes, Phases
<1>2. Holds' = Holds /\ Held' = Held /\ Flowing' = Flowing
  BY <1>1 DEF Holds, Held, Flowing
<1>3. PICK first \in Int : ChainFrom(first)
  BY <1>0 DEF Chain
<1>4. /\ Len(owner.recv) \in Nat /\ Len(filter.out) \in Nat /\ Len(filter.in) \in Nat
      /\ Held \in Nat /\ filter.in \in Seq(Nat) /\ job.received \in Nat
  BY <1>0, PrintLens DEF PrintTypes, PrintJobs
<1>5. CASE (~job.infd \/ filter.run = "dead") /\ UNCHANGED filter
  <2>1. PrintTypes'
    BY <1>0, <1>1, <1>5 DEF PrintTypes
  <2>2. Phases' /\ Endings' /\ Begun' /\ Tokens'
    BY <1>0, <1>1, <1>2, <1>5 DEF Phases, Endings, Begun, Tokens
  <2>3. ChainFrom(first)'
    BY <1>1, <1>2, <1>3, <1>5 DEF ChainFrom
  <2>4. job.cut \/ filter.run = "dead"
    BY <1>0, <1>1, <1>5 DEF Endings
  <2>5. Counted'
    BY <1>1, <1>5, <2>4 DEF Counted
  <2> QED  BY <2>1, <2>2, <2>3, <2>5 DEF PrintInv, Chain
<1>6. CASE /\ job.infd /\ filter.run = "run"
           /\ filter' = [filter EXCEPT !.in = Append(@, writes + 1)]
  <2> DEFINE in == Append(filter.in, writes + 1)
  <2>1. in \in Seq(Nat) /\ Len(in) = Len(filter.in) + 1
    BY <1>1, <1>4, AppendProperties
  <2>10. /\ in[Len(filter.in) + 1] = writes + 1
         /\ \A i \in 1 .. Len(filter.in) : in[i] = filter.in[i]
    BY <1>1, <1>4, AppendProperties
  <2>2. filter' = [filter EXCEPT !.in = in] /\ filter \in Filters
    BY <1>0, <1>6 DEF PrintTypes
  <2> HIDE DEF in
  <2>3. filter' \in Filters /\ filter'.run = filter.run /\ filter'.out = filter.out /\ filter'.in = in
    BY <2>1, <2>2 DEF Filters
  <2>4. owner.begun
    BY <1>0, <1>1, <1>6 DEF Begun
  <2>5. PrintTypes'
    BY <1>0, <1>1, <2>3 DEF PrintTypes
  <2>6. Phases' /\ Begun' /\ Tokens'
    BY <1>0, <1>1, <1>2, <2>3, <2>4 DEF Phases, Begun, Tokens
  <2>7. Endings'
    BY <1>0, <1>1, <1>6, <2>3 DEF Endings
  <2>8. ChainFrom(first)'
    <3> DEFINE made == Len(owner.recv) + Held + Len(filter.out)
    <3>1. ASSUME Flowing, NEW i \in 1 .. Len(in)  PROVE in[i] = first + made + i - 1
      <4>1. CASE i = Len(filter.in) + 1
        <5>1. writes + 1 = first + made + Len(filter.in)
          BY <1>3, <1>6, <3>1 DEF ChainFrom
        <5>2. in[i] = writes + 1
          BY <2>10, <4>1
        <5>3. made \in Int /\ first + made + i - 1 = first + made + Len(filter.in)
          BY <1>4, <4>1
        <5> QED  BY <5>1, <5>2, <5>3
      <4>2. CASE i # Len(filter.in) + 1
        <5>1. i \in 1 .. Len(filter.in)
          BY <1>4, <2>1, <4>2
        <5>2. filter.in[i] = first + made + i - 1
          BY <1>3, <3>1, <5>1 DEF ChainFrom
        <5> QED  BY <2>10, <5>1, <5>2
      <4> QED  BY <4>1, <4>2
    <3>2. Flowing => writes' + 1 = first + made + Len(in)
      <4>1. Flowing => writes + 1 = first + made + Len(filter.in)
        BY <1>3, <1>6 DEF ChainFrom
      <4>2. made \in Int /\ writes \in Nat /\ writes' = writes + 1
        BY <1>1, <1>4
      <4> HIDE DEF made
      <4> DEFINE a == Len(in)  b == Len(filter.in)
      <4>3. b \in Nat /\ a = b + 1 /\ (Flowing => writes + 1 = first + made + b)
        BY <1>4, <2>1, <4>1
      <4> HIDE DEF a, b
      <4>4. Flowing => writes' + 1 = first + made + a
        BY <4>2, <4>3
      <4> QED  BY <4>4 DEF a
    <3> HIDE DEF made
    <3>3. made = Len(owner.recv) + Held + Len(filter.out)
      BY DEF made
    <3> QED  BY <1>1, <1>2, <1>3, <2>3, <3>1, <3>2, <3>3 DEF ChainFrom
  <2>9. Counted'
    <3>1. CASE ~job.cut
      <4> DEFINE m == Len(owner.recv) + Held + Len(filter.out)  a == Len(in)  b == Len(filter.in)
      <4>1. m \in Nat /\ b \in Nat /\ a = b + 1 /\ m + b + 1 = job.received
        BY <1>0, <1>1, <1>4, <1>6, <2>1, <3>1, SMTT(30) DEF Counted
      <4>2. m + a + 0 = job'.received => Counted'
        BY <1>1, <1>2, <2>3 DEF Counted
      <4>3. job' = job
        BY <1>1
      <4> HIDE DEF m, a, b
      <4> QED  BY <4>1, <4>2, <4>3
    <3>2. CASE job.cut
      BY <1>1, <3>2 DEF Counted
    <3> QED  BY <3>1, <3>2
  <2> QED  BY <2>5, <2>6, <2>7, <2>8, <2>9 DEF PrintInv, Chain
<1> QED  BY <1>5, <1>6 DEF JobWritten

(* guac_rdpdr_process_print_job_close: only the input is closed, so that   *)
(* the filter may finish.                                                  *)
LEMMA CloseSound == PrintInv /\ JobClose => PrintInv'
<1> SUFFICES ASSUME PrintInv, JobClose  PROVE PrintInv'
  OBVIOUS
<1>0. PrintTypes /\ Phases /\ Endings /\ Begun /\ Tokens /\ Chain /\ Counted
  BY DEF PrintInv
<1>1. /\ rpc = "idle" /\ rpc' = "join" /\ job.live /\ job' = [job EXCEPT !.infd = FALSE]
      /\ UNCHANGED <<filter, tpc, tbuf, owner, jobs, writes>>
  BY DEF JobClose
<1>2. /\ job' \in PrintJobs /\ job'.live /\ job'.state = job.state /\ ~job'.infd
      /\ job'.outfd = job.outfd /\ job'.received = job.received /\ job'.cut = job.cut
  BY <1>0, <1>1 DEF PrintTypes, PrintJobs
<1>3. PrintTypes'
  BY <1>0, <1>1, <1>2 DEF PrintTypes
<1>4. Holds' = Holds /\ Held' = Held /\ Flowing' = Flowing
  BY <1>1, <1>2 DEF Holds, Held, Flowing
<1>5. Phases' /\ Endings'
  BY <1>0, <1>1, <1>2 DEF Phases, Endings
<1>6. Begun' /\ Tokens' /\ Counted'
  BY <1>0, <1>1, <1>2, <1>4 DEF Begun, Tokens, Counted
<1>7. Chain'
  <2>1. PICK first \in Int : ChainFrom(first)
    BY <1>0 DEF Chain
  <2>2. ChainFrom(first)'
    BY <1>1, <1>2, <1>4, <2>1 DEF ChainFrom
  <2> QED  BY <2>2 DEF Chain
<1> QED  BY <1>3, <1>5, <1>6, <1>7 DEF PrintInv

(* The kill by a thread other than the output thread, with no change to    *)
(* the owner but for the answers it owes.                                  *)
LEMMA KillByOther ==
    ASSUME PrintInv, job.live, Kill(job),
           owner' \in Owners, owner'.recv = owner.recv, owner'.begun = owner.begun,
           owner'.ended = owner.ended, owner'.credited = owner.credited, owner'.owed <= owner.owed,
           rpc' \in {"idle", "write", "join", "leaving", "disconnected"},
           rpc' = "write" => rpc = "write",
           UNCHANGED <<tbuf, jobs, writes>>
    PROVE  PrintInv'
<1>0. PrintTypes /\ Phases /\ Begun
  BY DEF PrintInv
<1>1. job' = [Killed(job) EXCEPT !.state = "CLOSED"] /\ KillFilter
  BY DEF Kill, SetState
<1>2. tpc' = tpc \/ (tpc = "blocked" /\ tpc' = "woken")
  BY DEF Kill, SetState
<1>3. /\ job' \in PrintJobs /\ job'.live = job.live /\ job'.state = "CLOSED" /\ job'.cut
      /\ ~job'.infd /\ ~job'.outfd /\ job'.received = job.received
  BY <1>0, <1>1, KilledFields DEF PrintTypes
<1>4. filter' \in Filters /\ filter'.run = "dead" /\ filter'.in = <<>> /\ filter'.out = filter.out
  BY <1>0, <1>1, FilterKilled DEF Phases
<1>5. job.received \in Nat /\ (rpc = "write" => job.received > 0) /\ jobs \in Nat
  BY <1>0 DEF PrintTypes, PrintJobs, Begun
<1>6. KillEffect
  BY <1>2, <1>3, <1>4, <1>5 DEF KillEffect
<1> QED  BY <1>6, KillSound

(* The connection ends with a job active.                                  *)
LEMMA DisconnectSound == PrintInv /\ Disconnect => PrintInv'
<1> SUFFICES ASSUME PrintInv, Disconnect  PROVE PrintInv'
  OBVIOUS
<1>1. /\ job.live /\ rpc' = "leaving" /\ Kill(job) /\ UNCHANGED <<tbuf, owner, jobs, writes>>
  BY DEF Disconnect
<1>2. owner \in Owners /\ owner.owed \in Nat
  BY DEF PrintInv, PrintTypes, Owners
<1> QED  BY <1>1, <1>2, KillByOther

(* guac_rdp_print_job_free after the join: the job is gone, and what the   *)
(* owner received of it stays as it was.                                   *)
LEMMA JoinedSound == PrintInv /\ JobJoined => PrintInv'
<1> SUFFICES ASSUME PrintInv, JobJoined  PROVE PrintInv'
  OBVIOUS
<1>0. PrintTypes /\ Phases /\ Begun /\ Tokens /\ Chain
  BY DEF PrintInv
<1>1. /\ job' = NoJob /\ tpc' = "none" /\ filter' = NoFilter
      /\ rpc' \in {"idle", "disconnected"} /\ UNCHANGED <<tbuf, owner, jobs, writes>>
  BY DEF JobJoined
<1> <<>> \in Seq(Nat) /\ Len(<<>>) = 0
  BY EmptySeq
<1>2. job' \in PrintJobs /\ ~job'.live /\ ~job'.cut /\ job'.state = "CLOSED"
  BY <1>1 DEF NoJob, PrintJobs, States
<1>3. filter' \in Filters /\ filter'.run = "none" /\ filter'.in = <<>> /\ filter'.out = <<>>
  BY <1>1 DEF NoFilter, Filters
<1>4. ~Holds' /\ ~Flowing'
  BY <1>1 DEF Holds, Flowing
<1>5. PrintTypes'
  BY <1>0, <1>1, <1>2, <1>3 DEF PrintTypes
<1>6. Phases' /\ Endings' /\ Begun' /\ Counted'
  BY <1>0, <1>1, <1>2, <1>3, <1>4 DEF Phases, Endings, Begun, Counted
<1>7. Tokens'
  <2>1. owner.owed \in Nat /\ owner.credited \in Nat
    BY <1>0 DEF PrintTypes, Owners
  <2> QED  BY <1>0, <1>1, <1>2, <2>1 DEF Tokens
<1>8. Chain'
  <2>1. PICK first \in Int : ChainFrom(first)
    BY <1>0 DEF Chain
  <2>2. ChainFrom(first)'
    BY <1>1, <1>4, <2>1 DEF ChainFrom
  <2> QED  BY <2>2 DEF Chain
<1> QED  BY <1>5, <1>6, <1>7, <1>8 DEF PrintInv

-----------------------------------------------------------------------------
(* The output thread.                                                      *)

LEMMA ReadSound == PrintInv /\ ThreadRead => PrintInv'
<1> SUFFICES ASSUME PrintInv, ThreadRead  PROVE PrintInv'
  OBVIOUS
<1>0. PrintTypes /\ Phases /\ Endings /\ Begun /\ Tokens /\ Chain /\ Counted
  BY DEF PrintInv
<1>1. tpc = "read" /\ UNCHANGED <<job, rpc, owner, jobs, writes>> /\ job.live /\ ~owner.ended
  BY <1>0 DEF ThreadRead, Phases
<1>2. PICK first \in Int : ChainFrom(first)
  BY <1>0 DEF Chain
<1>3. /\ Len(owner.recv) \in Nat /\ Len(filter.out) \in Nat /\ Len(filter.in) \in Nat
      /\ filter.out \in Seq(Nat) /\ ~Holds /\ Held = 0 /\ Held \in Nat
  BY <1>0, <1>1, PrintLens DEF Holds, Held
<1>4. CASE OutputEnds /\ tpc' = "end" /\ UNCHANGED <<filter, tbuf>>
  <2>1. ~Holds' /\ Held' = 0 /\ ~Flowing'
    BY <1>4 DEF Holds, Held, Flowing
  <2>2. PrintTypes'
    BY <1>0, <1>1, <1>4 DEF PrintTypes
  <2>3. Phases' /\ Begun' /\ Tokens'
    BY <1>0, <1>1, <1>3, <1>4, <2>1 DEF Phases, Begun, Tokens
  <2>4. Endings'
    BY <1>0, <1>1, <1>4 DEF Endings, OutputEnds
  <2>5. ChainFrom(first)'
    BY <1>1, <1>2, <2>1 DEF ChainFrom
  <2>6. Counted'
    BY <1>0, <1>1, <1>3, <1>4, <2>1 DEF Counted
  <2> QED  BY <2>2, <2>3, <2>4, <2>5, <2>6 DEF PrintInv, Chain
<1>5. CASE /\ job.outfd /\ filter.out # <<>> /\ tbuf' = Head(filter.out)
           /\ filter' = [filter EXCEPT !.out = Tail(@)] /\ tpc' = "wait"
  <2> DEFINE out == Tail(filter.out)
  <2>1. /\ out \in Seq(Nat) /\ Len(out) = Len(filter.out) - 1 /\ Head(filter.out) \in Nat
        /\ Len(filter.out) >= 1
    BY <1>3, <1>5, HeadTailProperties, EmptySeq
  <2>10. /\ Head(filter.out) = filter.out[1]
         /\ \A i \in 1 .. Len(filter.out) - 1 : out[i] = filter.out[i + 1]
    BY <1>3, <1>5, HeadTailProperties, EmptySeq
  <2>2. filter' = [filter EXCEPT !.out = out] /\ filter \in Filters
    BY <1>0, <1>5 DEF PrintTypes
  <2> HIDE DEF out
  <2>3. filter' \in Filters /\ filter'.run = filter.run /\ filter'.out = out /\ filter'.in = filter.in
    BY <2>1, <2>2 DEF Filters
  <2>4. Holds' /\ Held' = 1 /\ Flowing
    BY <1>1, <1>5 DEF Holds, Held, Flowing
  <2>5. PrintTypes'
    BY <1>0, <1>1, <1>5, <2>1, <2>3 DEF PrintTypes
  <2>6. Phases' /\ Begun' /\ Tokens'
    BY <1>0, <1>1, <1>5, <2>3 DEF Phases, Begun, Tokens
  <2>7. Endings'
    BY <1>0, <1>1, <1>5, <2>3 DEF Endings
  <2>8. ChainFrom(first)'
    <3>1. \A i \in 1 .. Len(filter.out) : filter.out[i] = first + Len(owner.recv) + i - 1
      BY <1>2, <1>3, <2>4 DEF ChainFrom
    <3>2. tbuf' = first + Len(owner.recv)
      <4>1. 1 \in 1 .. Len(filter.out)
        BY <1>3, <2>1
      <4>2. filter.out[1] = first + Len(owner.recv) + 1 - 1
        BY <3>1, <4>1
      <4>3. first + Len(owner.recv) + 1 - 1 = first + Len(owner.recv)
        BY <1>3
      <4> QED  BY <1>5, <2>10, <4>2, <4>3
    <3>3. ASSUME NEW i \in 1 .. Len(out)  PROVE out[i] = first + (Len(owner.recv) + 1) + i - 1
      <4>1. i + 1 \in 1 .. Len(filter.out) /\ i \in 1 .. Len(filter.out) - 1
        BY <1>3, <2>1
      <4>2. filter.out[i + 1] = first + Len(owner.recv) + (i + 1) - 1
        BY <3>1, <4>1
      <4>3. first + Len(owner.recv) + (i + 1) - 1 = first + (Len(owner.recv) + 1) + i - 1
        BY <1>3
      <4> QED  BY <2>10, <4>1, <4>2, <4>3
    <3>4. Len(owner.recv) + 1 + Len(out) = Len(owner.recv) + Held + Len(filter.out)
      <4>1. /\ Len(owner.recv) \in Nat /\ Len(filter.out) \in Nat
            /\ Len(out) = Len(filter.out) - 1 /\ Held = 0
        BY <1>3, <2>1
      <4> DEFINE a == Len(owner.recv)  b == Len(filter.out)  c == Len(out)
      <4>2. a \in Nat /\ b \in Nat /\ c = b - 1 /\ Held = 0
        BY <4>1
      <4> HIDE DEF a, b, c
      <4>3. a + 1 + c = a + Held + b
        BY <4>2
      <4> QED  BY <4>3 DEF a, b, c
    <3> QED  BY <1>1, <1>2, <2>3, <2>4, <3>2, <3>3, <3>4 DEF ChainFrom
  <2>9. Counted'
    <3>1. CASE ~job.cut /\ filter.run \in {"run", "exited"}
      <4> DEFINE a == Len(owner.recv)  b == Len(filter.out)  c == Len(out)  d == Len(filter.in)
                 w == IF rpc = "write" THEN 1 ELSE 0
      <4>1. /\ a \in Nat /\ b \in Nat /\ c = b - 1 /\ d \in Nat /\ w \in Nat
            /\ a + 0 + b + d + w = job.received
        BY <1>0, <1>1, <1>3, <2>1, <3>1 DEF Counted
      <4>2. a + 1 + c + d + w = job'.received => Counted'
        BY <1>1, <2>3, <2>4 DEF Counted
      <4>3. job' = job
        BY <1>1
      <4> HIDE DEF a, b, c, d, w
      <4> QED  BY <4>1, <4>2, <4>3
    <3>2. CASE ~(~job.cut /\ filter.run \in {"run", "exited"})
      BY <1>1, <2>3, <3>2 DEF Counted
    <3> QED  BY <3>1, <3>2
  <2> QED  BY <2>5, <2>6, <2>7, <2>8, <2>9 DEF PrintInv, Chain
<1> QED  BY <1>4, <1>5 DEF ThreadRead

(* guac_rdp_print_job_wait_for_ack: the answer that has come is used up by *)
(* the thread that goes on to send.                                        *)
LEMMA WaitSound == PrintInv /\ WaitForAck => PrintInv'
<1> SUFFICES ASSUME PrintInv, WaitForAck  PROVE PrintInv'
  OBVIOUS
<1>0. PrintTypes /\ Phases /\ Endings /\ Begun /\ Tokens /\ Chain /\ Counted
  BY DEF PrintInv
<1>1. /\ tpc \in {"wait", "woken"} /\ UNCHANGED <<filter, rpc, tbuf, owner, jobs, writes>>
      /\ job.live /\ ~owner.ended
  BY <1>0 DEF WaitForAck, Phases
<1>2. PICK first \in Int : ChainFrom(first)
  BY <1>0 DEF Chain
<1>3. Holds /\ Held = 1 /\ Flowing
  BY <1>1 DEF Holds, Held, Flowing
<1>4. job \in PrintJobs
  BY <1>0 DEF PrintTypes
<1>5. CASE tpc = "wait" /\ job.state = "WAITING_FOR_ACK" /\ tpc' = "blocked" /\ UNCHANGED job
  <2>1. Holds' /\ Held' = 1 /\ Flowing'
    BY <1>5 DEF Holds, Held, Flowing
  <2>2. PrintTypes'
    BY <1>0, <1>1, <1>5 DEF PrintTypes
  <2>3. Phases' /\ Endings' /\ Begun' /\ Tokens'
    BY <1>0, <1>1, <1>3, <1>5, <2>1 DEF Phases, Endings, Begun, Tokens
  <2>4. ChainFrom(first)' /\ Counted'
    BY <1>0, <1>1, <1>2, <1>3, <1>5, <2>1 DEF ChainFrom, Counted
  <2> QED  BY <2>2, <2>3, <2>4 DEF PrintInv, Chain
<1>6. CASE /\ job.state = "ACK_RECEIVED" /\ tpc' = "send"
           /\ job' = [job EXCEPT !.state = "WAITING_FOR_ACK"]
  <2>1. Holds' /\ Held' = 1 /\ Flowing'
    BY <1>6 DEF Holds, Held, Flowing
  <2>2. /\ job' \in PrintJobs /\ job'.live = job.live /\ job'.state = "WAITING_FOR_ACK"
        /\ job'.infd = job.infd /\ job'.outfd = job.outfd /\ job'.received = job.received
        /\ job'.cut = job.cut
    BY <1>4, <1>6 DEF PrintJobs, States
  <2>3. PrintTypes'
    BY <1>0, <1>1, <1>6, <2>2 DEF PrintTypes
  <2>4. Phases' /\ Endings' /\ Begun'
    BY <1>0, <1>1, <1>3, <1>6, <2>1, <2>2 DEF Phases, Endings, Begun
  <2>5. Tokens'
    <3>1. owner.owed \in Nat /\ owner.credited \in Nat
      BY <1>0 DEF PrintTypes, Owners
    <3> QED  BY <1>0, <1>1, <1>6, <2>2, <3>1 DEF Tokens
  <2>6. ChainFrom(first)' /\ Counted'
    BY <1>0, <1>1, <1>2, <1>3, <2>1, <2>2 DEF ChainFrom, Counted
  <2> QED  BY <2>3, <2>4, <2>5, <2>6 DEF PrintInv, Chain
<1>7. CASE tpc' = "end" /\ job' = [job EXCEPT !.cut = TRUE]
  <2>1. ~Holds' /\ ~Flowing'
    BY <1>7 DEF Holds, Flowing
  <2>2. /\ job' \in PrintJobs /\ job'.live = job.live /\ job'.state = job.state /\ job'.cut
        /\ job'.infd = job.infd /\ job'.outfd = job.outfd /\ job'.received = job.received
    BY <1>4, <1>7 DEF PrintJobs
  <2>3. PrintTypes'
    BY <1>0, <1>1, <1>7, <2>2 DEF PrintTypes
  <2>4. Phases' /\ Endings' /\ Begun' /\ Counted'
    BY <1>0, <1>1, <1>3, <1>7, <2>1, <2>2 DEF Phases, Endings, Begun, Counted
  <2>5. Tokens'
    BY <1>0, <1>1, <1>7, <2>2 DEF Tokens
  <2>6. ChainFrom(first)'
    BY <1>1, <1>2, <2>1 DEF ChainFrom
  <2> QED  BY <2>3, <2>4, <2>5, <2>6 DEF PrintInv, Chain
<1> QED  BY <1>5, <1>6, <1>7 DEF WaitForAck, AfterWait

(* The wait may end though nothing was signalled; the thread keeps what it *)
(* holds.                                                                  *)
LEMMA UnaskedSound == PrintInv /\ WakeUnasked => PrintInv'
<1> SUFFICES ASSUME PrintInv, WakeUnasked  PROVE PrintInv'
  OBVIOUS
<1>0. PrintTypes /\ Phases /\ Endings /\ Begun /\ Tokens /\ Chain /\ Counted
  BY DEF PrintInv
<1>1. /\ tpc = "blocked" /\ tpc' = "woken"
      /\ UNCHANGED <<job, filter, rpc, tbuf, owner, jobs, writes>>
  BY DEF WakeUnasked
<1>2. PICK first \in Int : ChainFrom(first)
  BY <1>0 DEF Chain
<1>3. Holds' = Holds /\ Held' = Held /\ Flowing' = Flowing
  BY <1>1 DEF Holds, Held, Flowing
<1>4. PrintTypes' /\ Phases' /\ Endings'
  BY <1>0, <1>1 DEF PrintTypes, Phases, Endings
<1>5. Begun' /\ Tokens' /\ Counted'
  BY <1>0, <1>1, <1>3 DEF Begun, Tokens, Counted
<1>6. ChainFrom(first)'
  BY <1>1, <1>2, <1>3 DEF ChainFrom
<1> QED  BY <1>4, <1>5, <1>6 DEF PrintInv, Chain

(* The kill by the output thread, which finds that the owner has gone.     *)
LEMMA KillBySelf ==
    ASSUME PrintInv, UNCHANGED <<owner, rpc, tbuf, jobs, writes>>, NEW next, KillSelf(next),
           (tpc = "send" /\ next = "read") \/ (tpc = "end" /\ next = "done")
    PROVE  PrintInv'
<1>0. PrintTypes /\ Phases /\ Begun
  BY DEF PrintInv
<1>1. job' = [Killed(job) EXCEPT !.state = "CLOSED"] /\ KillFilter /\ tpc' = next
  BY DEF KillSelf
<1>2. job.live /\ filter.run # "none"
  BY <1>0 DEF Phases
<1>3. /\ job' \in PrintJobs /\ job'.live = job.live /\ job'.state = "CLOSED" /\ job'.cut
      /\ ~job'.infd /\ ~job'.outfd /\ job'.received = job.received
  BY <1>0, <1>1, KilledFields DEF PrintTypes
<1>4. filter' \in Filters /\ filter'.run = "dead" /\ filter'.in = <<>> /\ filter'.out = filter.out
  BY <1>0, <1>1, <1>2, FilterKilled
<1>5. /\ job.received \in Nat /\ (rpc = "write" => job.received > 0) /\ jobs \in Nat
      /\ owner \in Owners /\ owner.owed \in Nat
  BY <1>0 DEF PrintTypes, PrintJobs, Owners, Begun
<1>6. rpc \in {"idle", "write", "join", "leaving", "disconnected"}
  BY <1>0 DEF PrintTypes
<1>7. \/ tpc = "send" /\ tpc' = "read"
      \/ tpc = "end" /\ tpc' = "done"
  BY <1>1
<1>8. job'.received >= job.received /\ (rpc' = "write" => job'.received > 0)
  BY <1>3, <1>5
<1>9. KillEffect
  BY <1>2, <1>3, <1>4, <1>5, <1>6, <1>7, <1>8 DEF KillEffect
<1> QED  BY <1>9, KillSound

(* guac_rdp_print_job_send_blob: the page the thread holds becomes the     *)
(* last the owner received, and the owner owes an answer again.            *)
LEMMA SendSound == PrintInv /\ SendBlob => PrintInv'
<1> SUFFICES ASSUME PrintInv, SendBlob  PROVE PrintInv'
  OBVIOUS
<1>0. PrintTypes /\ Phases /\ Endings /\ Begun /\ Tokens /\ Chain /\ Counted
  BY DEF PrintInv
<1>1. tpc = "send" /\ UNCHANGED <<rpc, tbuf, jobs, writes>>
  BY DEF SendBlob
<1>2. CASE KillSelf("read") /\ UNCHANGED owner
  BY <1>1, <1>2, KillBySelf
<1>3. CASE /\ owner' = [owner EXCEPT !.recv = Append(@, tbuf), !.owed = @ + 1]
           /\ tpc' = "read" /\ UNCHANGED <<job, filter>>
  <2> DEFINE recv == Append(owner.recv, tbuf)
  <2>1. /\ Len(owner.recv) \in Nat /\ Len(filter.out) \in Nat /\ Len(filter.in) \in Nat
        /\ owner.recv \in Seq(Nat) /\ tbuf \in Nat
    BY <1>0, PrintLens DEF PrintTypes
  <2>2. recv \in Seq(Nat) /\ Len(recv) = Len(owner.recv) + 1
    BY <2>1, AppendProperties
  <2>14. /\ recv[Len(owner.recv) + 1] = tbuf
         /\ \A i \in 1 .. Len(owner.recv) : recv[i] = owner.recv[i]
    BY <2>1, AppendProperties
  <2>3. /\ owner' = [owner EXCEPT !.recv = recv, !.owed = owner.owed + 1] /\ owner \in Owners
        /\ owner.owed \in Nat /\ owner.credited \in Nat
    BY <1>0, <1>3 DEF PrintTypes, Owners
  <2> HIDE DEF recv
  <2>4. /\ owner' \in Owners /\ owner'.recv = recv /\ owner'.owed = owner.owed + 1
        /\ owner'.begun = owner.begun /\ owner'.ended = owner.ended
        /\ owner'.credited = owner.credited
    <3>1. owner.owed + 1 \in Nat
      BY <2>3
    <3> QED  BY <2>2, <2>3, <3>1 DEF Owners
  <2>5. Holds /\ Held = 1 /\ Flowing /\ ~Holds' /\ Held' = 0
    BY <1>1, <1>3 DEF Holds, Held, Flowing
  <2>6. owner.begun /\ job.live /\ ~owner.ended
    BY <1>0, <1>1, <2>5 DEF Begun, Phases
  <2>7. PrintTypes'
    BY <1>0, <1>1, <1>3, <2>4 DEF PrintTypes
  <2>8. Phases' /\ Begun'
    BY <1>0, <1>1, <1>3, <2>4, <2>5, <2>6 DEF Phases, Begun
  <2>9. Endings'
    BY <1>0, <1>1, <1>3 DEF Endings
  <2>10. Tokens'
    BY <1>0, <1>1, <1>3, <2>3, <2>4 DEF Tokens
  <2>11. PICK first \in Int : ChainFrom(first)
    BY <1>0 DEF Chain
  <2>12. ChainFrom(first)'
    <3>1. ASSUME NEW i \in 1 .. Len(recv)  PROVE recv[i] = first + i - 1
      <4>1. CASE i = Len(owner.recv) + 1
        <5>1. tbuf = first + Len(owner.recv)
          BY <2>5, <2>11 DEF ChainFrom
        <5>2. first + i - 1 = first + Len(owner.recv)
          BY <2>1, <4>1
        <5> QED  BY <2>14, <4>1, <5>1, <5>2
      <4>2. CASE i # Len(owner.recv) + 1
        <5>1. i \in 1 .. Len(owner.recv)
          BY <2>1, <2>2, <4>2
        <5> QED  BY <2>11, <2>14, <5>1 DEF ChainFrom
      <4> QED  BY <4>1, <4>2
    <3>2. Len(recv) + 0 = Len(owner.recv) + Held
      BY <2>1, <2>2, <2>5
    <3> QED  BY <1>1, <1>3, <2>4, <2>5, <2>11, <3>1, <3>2 DEF ChainFrom
  <2>13. Counted'
    <3>1. Counted /\ job' = job /\ filter' = filter /\ rpc' = rpc
      BY <1>0, <1>1, <1>3
    <3>2. CASE job.live /\ ~job.cut /\ filter.run \in {"run", "exited"}
      <4> DEFINE a == Len(owner.recv)  b == Len(recv)  c == Len(filter.out)  d == Len(filter.in)
                 w == IF rpc = "write" THEN 1 ELSE 0
      <4>1. /\ a \in Nat /\ b = a + 1 /\ c \in Nat /\ d \in Nat /\ w \in Nat
            /\ a + 1 + c + d + w = job.received
        BY <2>1, <2>2, <2>5, <3>1, <3>2 DEF Counted
      <4>2. b + 0 + c + d + w = job'.received => Counted'
        BY <2>4, <2>5, <3>1 DEF Counted
      <4> HIDE DEF a, b, c, d, w
      <4> QED  BY <3>1, <4>1, <4>2
    <3>3. CASE ~(job.live /\ ~job.cut /\ filter.run \in {"run", "exited"})
      BY <3>1, <3>3 DEF Counted
    <3> QED  BY <3>2, <3>3
  <2> QED  BY <2>7, <2>8, <2>9, <2>10, <2>12, <2>13 DEF PrintInv, Chain
<1> QED  BY <1>2, <1>3 DEF SendBlob

(* guac_rdp_print_job_end_stream and the end of the output thread, which   *)
(* closes both descriptors.                                                *)
LEMMA StreamEndSound == PrintInv /\ EndStream => PrintInv'
<1> SUFFICES ASSUME PrintInv, EndStream  PROVE PrintInv'
  OBVIOUS
<1>0. PrintTypes /\ Phases /\ Endings /\ Begun /\ Tokens /\ Chain /\ Counted
  BY DEF PrintInv
<1>1. tpc = "end" /\ UNCHANGED <<rpc, tbuf, jobs, writes>>
  BY DEF EndStream
<1>2. CASE KillSelf("done") /\ UNCHANGED owner
  BY <1>1, <1>2, KillBySelf
<1>3. CASE /\ owner' = [owner EXCEPT !.ended = TRUE]
           /\ job' = [job EXCEPT !.stream = FALSE, !.infd = FALSE, !.outfd = FALSE]
           /\ tpc' = "done" /\ UNCHANGED filter
  <2>1. /\ owner' \in Owners /\ owner'.recv = owner.recv /\ owner'.owed = owner.owed
        /\ owner'.begun = owner.begun /\ owner'.credited = owner.credited
    BY <1>0, <1>3 DEF PrintTypes, Owners
  <2>2. /\ job' \in PrintJobs /\ job'.live = job.live /\ job'.state = job.state
        /\ ~job'.infd /\ ~job'.outfd /\ job'.received = job.received /\ job'.cut = job.cut
    BY <1>0, <1>3 DEF PrintTypes, PrintJobs
  <2>3. ~Holds /\ ~Holds' /\ Held = 0 /\ Held' = 0 /\ ~Flowing'
    BY <1>1, <1>3 DEF Holds, Held, Flowing
  <2>4. job.live
    BY <1>0, <1>1 DEF Phases
  <2>5. PrintTypes'
    BY <1>0, <1>1, <1>3, <2>1, <2>2 DEF PrintTypes
  <2>6. Phases' /\ Endings'
    BY <1>0, <1>1, <1>3, <2>2, <2>4 DEF Phases, Endings
  <2>7. Begun' /\ Tokens' /\ Counted'
    BY <1>0, <1>1, <1>3, <2>1, <2>2, <2>3, <2>4 DEF Begun, Tokens, Counted
  <2>8. PICK first \in Int : ChainFrom(first)
    BY <1>0 DEF Chain
  <2>9. ChainFrom(first)'
    BY <2>1, <2>3, <2>8 DEF ChainFrom
  <2> QED  BY <2>5, <2>6, <2>7, <2>9 DEF PrintInv, Chain
<1> QED  BY <1>2, <1>3 DEF EndStream

-----------------------------------------------------------------------------
(* The owner and the filter.                                               *)

(* guac_rdp_print_filter_ack_handler: an answer may come late, for a       *)
(* stream that is gone, or for one before this.                            *)
LEMMA AckSound == ASSUME NEW ok \in BOOLEAN, PrintInv, Ack(ok) PROVE PrintInv'
<1>0. PrintTypes /\ Phases /\ Endings /\ Begun /\ Tokens /\ Chain /\ Counted
  BY DEF PrintInv
<1> DEFINE mine == job.live /\ job.stream
<1>1. UNCHANGED <<rpc, tbuf, jobs, writes>>
  BY DEF Ack
<1>2. owner \in Owners /\ owner.owed \in Nat /\ owner.late \in Nat /\ owner.credited \in Nat
  BY <1>0 DEF PrintTypes, Owners
<1>3. /\ owner' \in Owners /\ owner'.recv = owner.recv /\ owner'.begun = owner.begun
      /\ owner'.ended = owner.ended
      /\ \/ owner'.owed = owner.owed - 1 /\ owner'.credited = owner.credited
         \/ owner'.owed = owner.owed /\ owner'.credited = owner.credited + 1 /\ ok /\ mine
         \/ owner'.owed = owner.owed /\ owner'.credited = owner.credited /\ ~(ok /\ mine)
  <2>1. CASE owner.late = 0
    <3>1. owner' = [owner EXCEPT !.owed = owner.owed - 1] /\ owner.owed - 1 \in Nat
      BY <1>2, <2>1 DEF Ack
    <3> QED  BY <1>2, <3>1 DEF Owners
  <2>2. CASE owner.late # 0 /\ ok /\ mine
    <3>1. /\ owner' = [owner EXCEPT !.late = owner.late - 1, !.credited = owner.credited + 1]
          /\ owner.late - 1 \in Nat /\ owner.credited + 1 \in Nat
      BY <1>2, <2>2 DEF Ack
    <3> QED  BY <1>2, <2>2, <3>1 DEF Owners
  <2>3. CASE owner.late # 0 /\ ~(ok /\ mine)
    <3>1. ~(ok /\ job.live /\ job.stream)
      BY <2>3
    <3>2. owner' = [owner EXCEPT !.late = owner.late - 1,
                                 !.credited = IF ok /\ job.live /\ job.stream
                                              THEN owner.credited + 1 ELSE owner.credited]
      BY <1>2, <2>3 DEF Ack
    <3>3. owner' = [owner EXCEPT !.late = owner.late - 1, !.credited = owner.credited]
      BY <3>1, <3>2
    <3>4. owner.late - 1 \in Nat
      BY <1>2, <2>3
    <3> QED  BY <1>2, <2>3, <3>3, <3>4 DEF Owners
  <2> QED  BY <2>1, <2>2, <2>3
<1>4. PICK first \in Int : ChainFrom(first)
  BY <1>0 DEF Chain
<1>5. CASE ~mine
  <2>1. UNCHANGED <<job, tpc, filter>>
    BY <1>5 DEF Ack
  <2>2. Holds' = Holds /\ Held' = Held /\ Flowing' = Flowing
    BY <2>1 DEF Holds, Held, Flowing
  <2>3. PrintTypes'
    BY <1>0, <1>1, <1>3, <2>1 DEF PrintTypes
  <2>4. Phases' /\ Endings' /\ Begun'
    BY <1>0, <1>1, <1>3, <2>1, <2>2 DEF Phases, Endings, Begun
  <2>5. Tokens'
    BY <1>0, <1>2, <1>3, <1>5, <2>1 DEF Tokens
  <2>6. ChainFrom(first)'
    BY <1>1, <1>3, <1>4, <2>1, <2>2 DEF ChainFrom
  <2>7. Counted'
    BY <1>0, <1>1, <1>3, <2>1, <2>2 DEF Counted
  <2> QED  BY <2>3, <2>4, <2>5, <2>6, <2>7 DEF PrintInv, Chain
<1>6. CASE mine /\ ok
  <2>1. SetState(job, "ACK_RECEIVED") /\ UNCHANGED filter
    BY <1>6 DEF Ack
  <2>2. job' = [job EXCEPT !.state = "ACK_RECEIVED"] /\ job \in PrintJobs
    BY <1>0, <2>1 DEF SetState, PrintTypes
  <2>3. /\ job' \in PrintJobs /\ job'.live = job.live /\ job'.state = "ACK_RECEIVED"
        /\ job'.infd = job.infd /\ job'.outfd = job.outfd /\ job'.received = job.received
        /\ job'.cut = job.cut
    BY <2>2 DEF PrintJobs, States
  <2>4. tpc' = tpc \/ (tpc = "blocked" /\ tpc' = "woken")
    BY <2>1 DEF SetState
  <2>5. Holds' = Holds /\ Held' = Held /\ Flowing' = Flowing
    BY <2>3, <2>4 DEF Holds, Held, Flowing
  <2>6. PrintTypes'
    BY <1>0, <1>1, <1>3, <2>1, <2>3, <2>4 DEF PrintTypes
  <2>7. Phases' /\ Endings' /\ Begun'
    BY <1>0, <1>1, <1>3, <1>6, <2>1, <2>3, <2>4, <2>5 DEF Phases, Endings, Begun
  <2>8. Tokens'
    <3>1. tpc' = "send" <=> tpc = "send"
      BY <2>4
    <3>2. Tokens
      BY <1>0
    <3> QED  BY <1>2, <1>3, <1>6, <2>3, <3>1, <3>2 DEF Tokens
  <2>9. ChainFrom(first)'
    BY <1>1, <1>3, <1>4, <2>1, <2>3, <2>5 DEF ChainFrom
  <2>10. Counted'
    BY <1>0, <1>1, <1>3, <2>1, <2>3, <2>5 DEF Counted
  <2> QED  BY <2>6, <2>7, <2>8, <2>9, <2>10 DEF PrintInv, Chain
<1>7. CASE mine /\ ~ok
  <2>1. Kill(job) /\ job.live
    BY <1>7 DEF Ack
  <2>2. owner'.credited = owner.credited /\ owner'.owed <= owner.owed
    BY <1>2, <1>3, <1>7
  <2>3. rpc \in {"idle", "write", "join", "leaving", "disconnected"}
    BY <1>0 DEF PrintTypes
  <2> QED  BY <1>1, <1>3, <2>1, <2>2, <2>3, KillByOther
<1> QED  BY <1>5, <1>6, <1>7

(* The owner leaves, and nobody tells the job.                             *)
LEMMA LeaveSound == PrintInv /\ OwnerLeaves => PrintInv'
<1> SUFFICES ASSUME PrintInv, OwnerLeaves  PROVE PrintInv'
  OBVIOUS
<1>0. PrintTypes /\ Phases /\ Endings /\ Begun /\ Tokens /\ Chain /\ Counted
  BY DEF PrintInv
<1>1. /\ owner' = [owner EXCEPT !.here = FALSE] /\ owner \in Owners
      /\ UNCHANGED <<job, filter, rpc, tpc, tbuf, jobs, writes>>
  BY <1>0 DEF OwnerLeaves, PrintTypes
<1>2. /\ owner' \in Owners /\ owner'.recv = owner.recv /\ owner'.owed = owner.owed
      /\ owner'.begun = owner.begun /\ owner'.credited = owner.credited
      /\ owner'.ended = owner.ended
  BY <1>1 DEF Owners
<1>3. Holds' = Holds /\ Held' = Held /\ Flowing' = Flowing
  BY <1>1 DEF Holds, Held, Flowing
<1>4. PrintTypes'
  BY <1>0, <1>1, <1>2 DEF PrintTypes
<1>5. Phases' /\ Endings' /\ Begun'
  BY <1>0, <1>1, <1>2, <1>3 DEF Phases, Endings, Begun
<1>6. Tokens' /\ Counted'
  BY <1>0, <1>1, <1>2, <1>3 DEF Tokens, Counted
<1>7. PICK first \in Int : ChainFrom(first)
  BY <1>0 DEF Chain
<1>8. ChainFrom(first)'
  BY <1>1, <1>2, <1>3, <1>7 DEF ChainFrom
<1> QED  BY <1>4, <1>5, <1>6, <1>8 DEF PrintInv, Chain

(* The filter dies by itself: the pages of its input are lost, and the job *)
(* is one that need not be whole.                                          *)
LEMMA FilterDies ==
    ASSUME PrintInv, filter.run = "run", KillFilter,
           UNCHANGED <<job, rpc, tpc, tbuf, owner, jobs, writes>>
    PROVE  PrintInv'
<1>0. PrintTypes /\ Phases /\ Endings /\ Begun /\ Tokens /\ Chain /\ Counted
  BY DEF PrintInv
<1>1. /\ filter.run = "run" /\ UNCHANGED <<job, rpc, tpc, tbuf, owner, jobs, writes>>
      /\ KillFilter /\ job.live
  BY <1>0 DEF Phases
<1>2. filter' \in Filters /\ filter'.run = "dead" /\ filter'.in = <<>> /\ filter'.out = filter.out
  BY <1>0, <1>1, FilterKilled
<1>3. Holds' = Holds /\ Held' = Held /\ Flowing' = Flowing
  BY <1>1 DEF Holds, Held, Flowing
<1>4. PrintTypes'
  BY <1>0, <1>1, <1>2 DEF PrintTypes
<1>5. Phases' /\ Endings' /\ Begun' /\ Tokens' /\ Counted'
  BY <1>0, <1>1, <1>2, <1>3 DEF Phases, Endings, Begun, Tokens, Counted
<1>6. PICK first \in Int : ChainFrom(first)
  BY <1>0 DEF Chain
<1>7. ChainFrom(first)'
  <2>1. Len(filter'.in) = 0
    BY <1>2, EmptySeq
  <2> QED  BY <1>1, <1>2, <1>3, <1>6, <2>1 DEF ChainFrom
<1> QED  BY <1>4, <1>5, <1>7 DEF PrintInv, Chain

(* The filter moves the oldest page of its input to its output, or exits   *)
(* once its input is empty and closed.                                     *)
LEMMA FilterSound == PrintInv /\ FilterWorks => PrintInv'
<1> SUFFICES ASSUME PrintInv, FilterWorks  PROVE PrintInv'
  OBVIOUS
<1>0. PrintTypes /\ Phases /\ Endings /\ Begun /\ Tokens /\ Chain /\ Counted
  BY DEF PrintInv
<1>1. /\ filter.run = "run" /\ UNCHANGED <<job, rpc, tpc, tbuf, owner, jobs, writes>>
      /\ filter \in Filters /\ job.live
  BY <1>0 DEF FilterWorks, PrintTypes, Phases
<1>2. Holds' = Holds /\ Held' = Held /\ Flowing' = Flowing
  BY <1>1 DEF Holds, Held, Flowing
<1>3. /\ Len(owner.recv) \in Nat /\ Len(filter.out) \in Nat /\ Len(filter.in) \in Nat
      /\ Held \in Nat /\ filter.in \in Seq(Nat) /\ filter.out \in Seq(Nat)
  BY <1>0, PrintLens
<1>4. PICK first \in Int : ChainFrom(first)
  BY <1>0 DEF Chain
<1>5. CASE /\ filter.in # <<>> /\ job.outfd
           /\ filter' = [filter EXCEPT !.in = Tail(@), !.out = Append(@, Head(filter.in))]
  <2> DEFINE in == Tail(filter.in)  h == Head(filter.in)  out == Append(filter.out, h)
  <2>1. /\ in \in Seq(Nat) /\ Len(in) = Len(filter.in) - 1 /\ h \in Nat /\ Len(filter.in) >= 1
    BY <1>3, <1>5, HeadTailProperties, EmptySeq
  <2>2. /\ h = filter.in[1]
        /\ \A i \in 1 .. Len(filter.in) - 1 : in[i] = filter.in[i + 1]
    BY <1>3, <1>5, HeadTailProperties, EmptySeq
  <2>3. out \in Seq(Nat) /\ Len(out) = Len(filter.out) + 1
    <3> HIDE DEF h
    <3> QED  BY <1>3, <2>1, AppendProperties
  <2>4. /\ out[Len(filter.out) + 1] = h
        /\ \A i \in 1 .. Len(filter.out) : out[i] = filter.out[i]
    <3> HIDE DEF h
    <3> QED  BY <1>3, <2>1, AppendProperties
  <2>5. filter' = [filter EXCEPT !.in = in, !.out = out]
    BY <1>5
  <2> HIDE DEF in, h, out
  <2>6. filter' \in Filters /\ filter'.run = "run" /\ filter'.in = in /\ filter'.out = out
    BY <1>1, <2>1, <2>3, <2>5 DEF Filters
  <2>7. owner.begun
    BY <1>0, <1>5 DEF Begun
  <2>8. PrintTypes'
    BY <1>0, <1>1, <2>6 DEF PrintTypes
  <2>9. Phases' /\ Endings' /\ Begun' /\ Tokens'
    BY <1>0, <1>1, <1>2, <2>6, <2>7 DEF Phases, Endings, Begun, Tokens
  <2>10. ChainFrom(first)'
    <3> DEFINE read == Len(owner.recv) + Held  a == Len(filter.out)  b == Len(filter.in)
               c == Len(out)  d == Len(in)
    <3>1. /\ read \in Nat /\ a \in Nat /\ b \in Nat /\ c = a + 1 /\ d = b - 1 /\ 1 <= b
      BY <1>3, <2>1, <2>3
    <3>2. Flowing => /\ \A i \in 1 .. a : filter.out[i] = first + read + i - 1
                     /\ \A i \in 1 .. b : filter.in[i] = first + (read + a) + i - 1
                     /\ job.infd => writes + 1 = first + (read + a) + b
      BY <1>1, <1>4 DEF ChainFrom
    <3>3. /\ out[a + 1] = filter.in[1]
          /\ \A i \in 1 .. a : out[i] = filter.out[i]
          /\ \A i \in 1 .. b - 1 : in[i] = filter.in[i + 1]
      BY <2>2, <2>4
    <3>4. /\ (\A i \in 1 .. Len(owner.recv) : owner.recv[i] = first + i - 1)
          /\ (Holds => tbuf = first + Len(owner.recv))
      BY <1>4 DEF ChainFrom
    <3>5. ASSUME Flowing
                   => /\ \A i \in 1 .. c : out[i] = first + read + i - 1
                      /\ \A i \in 1 .. d : in[i] = first + (read + c) + i - 1
                      /\ job.infd => writes + 1 = first + (read + c) + d
          PROVE  ChainFrom(first)'
      BY <1>1, <1>2, <2>6, <3>4, <3>5 DEF ChainFrom
    <3> HIDE DEF read, a, b, c, d
    <3>6. ASSUME Flowing, NEW i \in 1 .. c  PROVE out[i] = first + read + i - 1
      <4>1. CASE i = a + 1
        <5>1. 1 \in 1 .. b
          BY <3>1
        <5>2. filter.in[1] = first + (read + a) + 1 - 1
          BY <3>2, <3>6, <5>1
        <5>3. first + (read + a) + 1 - 1 = first + read + i - 1
          BY <3>1, <4>1
        <5> QED  BY <3>3, <4>1, <5>2, <5>3
      <4>2. CASE i # a + 1
        <5>1. i \in 1 .. a
          BY <3>1, <4>2
        <5> QED  BY <3>2, <3>3, <3>6, <5>1
      <4> QED  BY <4>1, <4>2
    <3>7. ASSUME Flowing, NEW i \in 1 .. d  PROVE in[i] = first + (read + c) + i - 1
      <4>1. i \in 1 .. b - 1 /\ i + 1 \in 1 .. b
        BY <3>1
      <4>2. filter.in[i + 1] = first + (read + a) + (i + 1) - 1
        BY <3>2, <3>7, <4>1
      <4>3. first + (read + a) + (i + 1) - 1 = first + (read + c) + i - 1
        BY <3>1
      <4> QED  BY <3>3, <4>1, <4>2, <4>3
    <3>8. first + (read + a) + b = first + (read + c) + d
      BY <3>1
    <3> QED  BY <3>2, <3>5, <3>6, <3>7, <3>8
  <2>11. Counted'
    <3>1. CASE ~job.cut
      <4> DEFINE m == Len(owner.recv) + Held  a == Len(filter.out)  b == Len(filter.in)
                 c == Len(out)  d == Len(in)  w == IF rpc = "write" THEN 1 ELSE 0
      <4>1. /\ m \in Nat /\ a \in Nat /\ b \in Nat /\ c = a + 1 /\ d = b - 1 /\ w \in Nat
            /\ m + a + b + w = job.received
        <5>1. m \in Nat /\ a \in Nat /\ b \in Nat /\ w \in Nat
          BY <1>3
        <5>2. c = a + 1 /\ d = b - 1
          BY <2>1, <2>3
        <5>3. m + a + b + w = job.received
          BY <1>0, <1>1, <3>1 DEF Counted
        <5> QED  BY <5>1, <5>2, <5>3
      <4>2. m + c + d + w = job'.received => Counted'
        BY <1>1, <1>2, <2>6 DEF Counted
      <4>3. job' = job
        BY <1>1
      <4> HIDE DEF m, a, b, c, d, w
      <4> QED  BY <4>1, <4>2, <4>3
    <3>2. CASE job.cut
      BY <1>1, <3>2 DEF Counted
    <3> QED  BY <3>1, <3>2
  <2> QED  BY <2>8, <2>9, <2>10, <2>11 DEF PrintInv, Chain
<1>6. CASE filter.in = <<>> /\ ~job.infd /\ filter' = [filter EXCEPT !.run = "exited"]
  <2>1. /\ filter' \in Filters /\ filter'.run = "exited" /\ filter'.in = filter.in
        /\ filter'.out = filter.out
    BY <1>1, <1>6 DEF Filters
  <2>2. PrintTypes'
    BY <1>0, <1>1, <2>1 DEF PrintTypes
  <2>3. Phases' /\ Begun' /\ Tokens'
    BY <1>0, <1>1, <1>2, <2>1 DEF Phases, Begun, Tokens
  <2>4. Endings'
    BY <1>0, <1>1, <1>6, <2>1 DEF Endings
  <2>5. ChainFrom(first)'
    BY <1>1, <1>2, <1>4, <2>1 DEF ChainFrom
  <2>6. Counted'
    BY <1>0, <1>1, <1>2, <2>1 DEF Counted
  <2> QED  BY <2>2, <2>3, <2>4, <2>5, <2>6 DEF PrintInv, Chain
<1>7. CASE KillFilter
  BY <1>1, <1>7, FilterDies
<1> QED  BY <1>5, <1>6, <1>7 DEF FilterWorks

-----------------------------------------------------------------------------
(* Every step of the RDP thread, the output thread, the owner and the      *)
(* filter keeps the invariant.                                             *)
LEMMA PrintInductive == PrintInv /\ [PrintNext]_printVars => PrintInv'
<1> SUFFICES ASSUME PrintInv, [PrintNext]_printVars  PROVE PrintInv'
  OBVIOUS
<1>1. CASE JobCreate \/ JobWrite \/ JobWritten \/ JobClose \/ Disconnect \/ JobJoined
  BY <1>1, CreateSound, WriteSound, WrittenSound, CloseSound, DisconnectSound, JoinedSound
<1>2. CASE PrintThreads \/ WakeUnasked
  BY <1>2, ReadSound, WaitSound, UnaskedSound, SendSound, StreamEndSound DEF PrintThreads
<1>3. CASE Ack(TRUE) \/ Ack(FALSE)
  BY <1>3, AckSound
<1>4. CASE OwnerLeaves \/ FilterWorks \/ FilterCrashes
  BY <1>4, LeaveSound, FilterSound, FilterDies DEF FilterCrashes
<1>5. CASE UNCHANGED printVars
  <2>0. PrintTypes /\ Phases /\ Endings /\ Begun /\ Tokens /\ Chain /\ Counted
    BY DEF PrintInv
  <2>1. Holds' = Holds /\ Held' = Held /\ Flowing' = Flowing
    BY <1>5 DEF Holds, Held, Flowing
  <2>2. PrintTypes' /\ Phases' /\ Endings'
    BY <1>5, <2>0 DEF PrintTypes, Phases, Endings
  <2>3. Begun' /\ Tokens' /\ Counted'
    BY <1>5, <2>0, <2>1 DEF Begun, Tokens, Counted
  <2>4. PICK first \in Int : ChainFrom(first)
    BY <2>0 DEF Chain
  <2>5. ChainFrom(first)'
    BY <1>5, <2>1, <2>4 DEF ChainFrom
  <2> QED  BY <2>2, <2>3, <2>5 DEF PrintInv, Chain
<1> QED  BY <1>1, <1>2, <1>3, <1>4, <1>5 DEF PrintNext

(* The owner's PDF is what the filter made of the document, in order and   *)
(* without a gap; one blob is under way at a time; and a job that ends     *)
(* with neither an abort nor a crash is whole, if the output thread never  *)
(* woke without an answer: print-job.c, for any number of jobs and writes  *)
(* and any capacity of the pipes, whatever the answers of the owner and    *)
(* whenever the job is closed.                                             *)
THEOREM DocumentIntact == PrintSpec => []PrintExact
<1>1. PrintInv => PrintExact
  <2> SUFFICES ASSUME PrintInv  PROVE PrintExact
    OBVIOUS
  <2>0. PrintTypes /\ Phases /\ Endings /\ Begun /\ Tokens /\ Chain /\ Counted
    BY DEF PrintInv
  <2>1. owner.recv # <<>> => owner.begun
    BY <2>0 DEF Begun
  <2>2. ASSUME NEW i \in DOMAIN owner.recv  PROVE owner.recv[i] = owner.recv[1] + i - 1
    <3>1. PICK first \in Int : \A k \in 1 .. Len(owner.recv) : owner.recv[k] = first + k - 1
      BY <2>0 DEF Chain, ChainFrom
    <3>2. i \in 1 .. Len(owner.recv) /\ 1 \in 1 .. Len(owner.recv)
      BY <2>0, PrintLens, LenProperties
    <3>3. owner.recv[i] = first + i - 1 /\ owner.recv[1] = first + 1 - 1
      BY <3>1, <3>2
    <3> QED  BY <3>2, <3>3
  <2>3. owner.owed <= 1 + owner.credited
    <3>1. owner.owed \in Nat /\ owner.credited \in Nat
      BY <2>0 DEF PrintTypes, Owners
    <3>2. Tokens
      BY <2>0
    <3> QED  BY <3>1, <3>2 DEF Tokens
  <2>4. ASSUME job.live, owner.ended, ~job.cut, filter.run = "exited"
        PROVE  Len(owner.recv) = job.received
    <3>1. tpc = "done" /\ rpc = "join" /\ filter.out = <<>> /\ filter.in = <<>>
      BY <2>0, <2>4 DEF Phases, Endings
    <3>2. Held = 0 /\ Len(<<>>) = 0 /\ Len(owner.recv) \in Nat
      BY <2>0, <3>1, EmptySeq, PrintLens DEF Held, Holds
    <3> DEFINE a == Len(owner.recv)
    <3>3. a + 0 + 0 + 0 + 0 = job.received /\ a \in Nat
      BY <2>0, <2>4, <3>1, <3>2 DEF Counted
    <3> HIDE DEF a
    <3>4. a = job.received
      BY <3>3
    <3> QED  BY <3>4 DEF a
  <2> QED  BY <2>1, <2>2, <2>3, <2>4 DEF PrintExact
<1> QED  BY <1>1, PrintInitially, PrintInductive, PTL DEF PrintSpec

-----------------------------------------------------------------------------
(* The table of open files of the RDP drive.                               *)

(* The fields of the state and of a stream that the proof looks at.        *)
StreamFields == {"kind", "id", "off", "got", "json", "listed", "src", "clean"}
Shape(s) ==
    /\ {"chan", "names", "inode", "fs", "open", "due", "fault", "owner", "strm", "srv", "reply", "handed",
        "removed", "leaked"} \subseteq DOMAIN s
    /\ {"files", "next", "free", "n", "inc", "dec", "lost"} \subseteq DOMAIN s.fs
    /\ DOMAIN s.due = Threads
    /\ DOMAIN s.strm = 1 .. MaxStreams
    /\ \A k \in 1 .. MaxStreams :
          StreamFields \subseteq DOMAIN s.strm[k]

(* The pool of ids has given out those of the open files.                  *)
Pool(s) ==
    /\ s.fs.next \in 0 .. MaxFiles
    /\ s.fs.free \in Seq(Int) /\ IsInjective(s.fs.free)
    /\ s.open \cap ToSet(s.fs.free) = {}
    /\ s.open \cup ToSet(s.fs.free) = 0 .. s.fs.next - 1

(* The count of open files, with what is still to come and what was lost.  *)
Balanced(s) ==
    /\ s.fs.n \in Int /\ s.fs.inc \in Int /\ s.fs.dec \in Int /\ s.fs.lost \in Int
    /\ s.due \in [Threads -> [inc : Int, dec : Int, seen : {<<>>} \cup {<<x>> : x \in Int}]]
    /\ OpenFiles(s) + Uncounted(s) + s.fs.lost = Cardinality(s.open)
    /\ s.fault = "overrun" => s.fs.n < Cardinality(s.open)

(* A handler changes only what it leaves behind for the count.             *)
Found(s) == s.due = drive.due /\ s.fs.n = drive.fs.n /\ s.fs.lost = drive.fs.lost

Table(s) == Pool(s) /\ Balanced(s) /\ Found(s)

(* Who holds the open files.                                               *)
Active == {"up", "down", "ls"}
HeldBy(s) == {k \in 1 .. MaxStreams : s.strm[k].kind \in Active}
Holders(s) ==
    /\ s.open = s.srv \cup {s.strm[k].id : k \in HeldBy(s)} \cup s.leaked
    /\ \A k \in HeldBy(s) : s.strm[k].id \notin s.srv \cup s.leaked
    /\ \A k, l \in HeldBy(s) : s.strm[k].id = s.strm[l].id => k = l
    /\ s.srv \cap s.leaked = {}

DriveInv(s) == Shape(s) /\ Table(s) /\ Holders(s)

(* What a step may leave alone: the table, or who holds its entries.       *)
SameCount(s, t) ==
    /\ t.fs.n = s.fs.n /\ t.fs.inc = s.fs.inc /\ t.fs.dec = s.fs.dec /\ t.fs.lost = s.fs.lost
    /\ t.due = s.due /\ t.fault = s.fault
SameTable(s, t) ==
    t.fs.next = s.fs.next /\ t.fs.free = s.fs.free /\ t.open = s.open /\ SameCount(s, t)
SameHolders(s, t) ==
    /\ t.srv = s.srv /\ t.leaked = s.leaked
    /\ \A k \in 1 .. MaxStreams : t.strm[k].kind = s.strm[k].kind /\ t.strm[k].id = s.strm[k].id
Quiet(s, t) == Shape(t) /\ SameTable(s, t) /\ SameHolders(s, t)

(* A handler at work that may still open a file, and one that begins.      *)
Ready(s) == s.fault = "none" /\ s.fs.dec <= s.fs.inc
Steady(s) == s.fault = "none" /\ s.fs.inc = 0 /\ s.fs.dec = 0

LEMMA TableSame == ASSUME NEW s, NEW t, Table(s), SameTable(s, t)  PROVE Table(t)
<1>1. Pool(t)
  BY DEF Table, Pool, SameTable
<1>2. OpenFiles(t) = OpenFiles(s) /\ Uncounted(t) = Uncounted(s)
  BY DEF SameTable, SameCount, OpenFiles, Uncounted
<1>3. Balanced(t)
  BY <1>2 DEF Table, Balanced, SameTable, SameCount
<1> QED  BY <1>1, <1>3 DEF Table, Found, SameTable, SameCount

LEMMA QuietSound == ASSUME NEW s, NEW t, DriveInv(s), Quiet(s, t)  PROVE DriveInv(t)
<1>1. Table(t)
  BY TableSame DEF DriveInv, Quiet
<1>2. HeldBy(t) = HeldBy(s)
  BY DEF HeldBy, Quiet, SameHolders
<1>3. {t.strm[k].id : k \in HeldBy(t)} = {s.strm[k].id : k \in HeldBy(s)}
  BY <1>2 DEF HeldBy, Quiet, SameHolders
<1>4. Holders(t)
  BY <1>2, <1>3 DEF DriveInv, Holders, Quiet, SameHolders, SameTable, HeldBy
<1> QED  BY <1>1, <1>4 DEF DriveInv, Quiet

LEMMA QuietTwice == ASSUME NEW s, NEW t, NEW u, Quiet(s, t), Quiet(t, u)  PROVE Quiet(s, u)
BY DEF Quiet, SameTable, SameCount, SameHolders

LEMMA QuietReady ==
    ASSUME NEW s, NEW t, Quiet(s, t)
    PROVE  /\ OpenFiles(t) = OpenFiles(s)
           /\ Ready(s) => Ready(t)
           /\ Steady(s) => Steady(t)
BY DEF Quiet, SameTable, SameCount, OpenFiles, Ready, Steady

LEMMA SteadyReady == ASSUME NEW s, Steady(s)  PROVE Ready(s)
BY DEF Steady, Ready

LEMMA QuietSelf == ASSUME NEW s, Shape(s)  PROVE Quiet(s, s)
BY DEF Quiet, SameTable, SameCount, SameHolders

(* Steps of the drive of the operating system.                             *)
LEMMA PosixQuiet ==
    ASSUME NEW s, Shape(s)
    PROVE  /\ \A p, dir : Quiet(s, MakeInode(s, p, dir))
           /\ \A p : Quiet(s, Unlinked(s, p))
           /\ \A ino, data : Quiet(s, SetData(s, ino, data))
           /\ \A p, f : Quiet(s, PosixOpen(s, p, f))
           /\ \A p, q : Quiet(s, PosixRename(s, p, q))
<1> USE DEF Quiet, SameTable, SameCount, SameHolders
<1>1. ASSUME NEW p, NEW dir  PROVE Quiet(s, MakeInode(s, p, dir))
  BY DEF Shape, StreamFields, MakeInode
<1>2. ASSUME NEW p  PROVE Quiet(s, Unlinked(s, p))
  BY DEF Shape, StreamFields, Unlinked
<1>3. ASSUME NEW ino, NEW data  PROVE Quiet(s, SetData(s, ino, data))
  <2> DEFINE t == SetData(s, ino, data)
  <2>1. /\ DOMAIN t = DOMAIN s /\ t.fs = s.fs /\ t.open = s.open /\ t.srv = s.srv /\ t.leaked = s.leaked
      /\ t.due = s.due /\ t.fault = s.fault
    BY DEF Shape, StreamFields, SetData
  <2>2. t.strm = [k \in DOMAIN s.strm |-> IF s.strm[k].src = ino THEN [s.strm[k] EXCEPT !.clean = FALSE]
                                          ELSE s.strm[k]]
    BY DEF Shape, StreamFields, SetData
  <2> HIDE DEF t
  <2>3. Shape(t)
    BY <2>1, <2>2 DEF Shape, StreamFields
  <2>4. \A k \in 1 .. MaxStreams : t.strm[k].kind = s.strm[k].kind /\ t.strm[k].id = s.strm[k].id
    BY <2>1, <2>2 DEF Shape, StreamFields
  <2> QED  BY <2>1, <2>3, <2>4 DEF t
<1>4. ASSUME NEW p, NEW f  PROVE Quiet(s, PosixOpen(s, p, f))
  <2> HIDE DEF Quiet, SameTable, SameCount, SameHolders
  <2> QED  BY <1>1, <1>3, QuietSelf DEF PosixOpen
<1>5. ASSUME NEW p, NEW q  PROVE Quiet(s, PosixRename(s, p, q))
  <2>1. CASE p = q
    BY <2>1, QuietSelf DEF PosixRename
  <2>2. CASE p # q
    <3>1. PICK g : PosixRename(s, p, q) = [s EXCEPT !.names = g]
      BY <2>2 DEF PosixRename
    <3> QED  BY <3>1 DEF Shape, StreamFields
  <2> QED  BY <2>1, <2>2
<1> QED  BY <1>1, <1>2, <1>3, <1>4, <1>5

(* The codes of the errors are negative.                                   *)
LEMMA ErrorsNegative == \A err : GetErrorcode(err) \in Int /\ GetErrorcode(err) < 0
BY DEF GetErrorcode, ErrorCodes, EINVAL

(* A state with a sound table, and a step after which the same files are   *)
(* open and held by the same.                                              *)
Sound(s) == Shape(s) /\ Table(s)
Alike(s, t) == Sound(t) /\ t.open = s.open /\ SameHolders(s, t)

(* A file was opened: its id is new, and nobody's yet.                     *)
Fresh(s, o) ==
    /\ o.id \in 0 .. MaxFiles - 1 /\ o.id \notin s.open
    /\ Sound(o.s) /\ o.s.open = s.open \cup {o.id} /\ SameHolders(s, o.s)
    /\ Ready(o.s)
NotOpened(s, o) == o.id \notin 0 .. MaxFiles - 1 /\ Alike(s, o.s)
Opens(s, o) == NotOpened(s, o) \/ Fresh(s, o)

(* A step that only closes the file.                                       *)
Closes(s, t, id) == Sound(t) /\ t.open = s.open \ {id} /\ SameHolders(s, t)

LEMMA QuietAlike == ASSUME NEW s, NEW t, Sound(s), Quiet(s, t)  PROVE Alike(s, t)
BY TableSame DEF Alike, Sound, Quiet, SameTable

LEMMA AlikeTwice == ASSUME NEW s, NEW t, NEW u, Alike(s, t), Alike(t, u)  PROVE Alike(s, u)
BY DEF Alike, SameHolders

LEMMA AlikeOpens == ASSUME NEW s, NEW t, NEW o, Alike(s, t), Opens(t, o)  PROVE Opens(s, o)
BY DEF Opens, NotOpened, Fresh, Alike, SameHolders

LEMMA AlikeSound == ASSUME NEW s, NEW t, DriveInv(s), Alike(s, t)  PROVE DriveInv(t)
<1>2. HeldBy(t) = HeldBy(s)
  BY DEF HeldBy, Alike, SameHolders
<1>3. {t.strm[k].id : k \in HeldBy(t)} = {s.strm[k].id : k \in HeldBy(s)}
  BY <1>2 DEF HeldBy, Alike, SameHolders
<1>4. Holders(t)
  BY <1>2, <1>3 DEF DriveInv, Holders, Alike, SameHolders, HeldBy
<1> QED  BY <1>4 DEF DriveInv, Alike, Sound

(* What the count is made of.                                              *)
LEMMA CountsInt ==
    ASSUME NEW s, Balanced(s)
    PROVE  /\ s.fs.n \in Int /\ s.fs.inc \in Int /\ s.fs.dec \in Int /\ s.fs.lost \in Int
           /\ \A t \in Threads : s.due[t].inc \in Int /\ s.due[t].dec \in Int
           /\ OpenFiles(s) \in Int /\ Uncounted(s) \in Int
<1>1. s.fs.n \in Int /\ s.fs.inc \in Int /\ s.fs.dec \in Int /\ s.fs.lost \in Int
  BY DEF Balanced
<1>2. \A t \in Threads : s.due[t] \in [inc : Int, dec : Int, seen : {<<>>} \cup {<<x>> : x \in Int}]
  BY DEF Balanced
<1>3. \A t \in Threads : s.due[t].inc \in Int /\ s.due[t].dec \in Int
  BY <1>2
<1>4. OpenFiles(s) \in Int
  BY <1>1 DEF OpenFiles
<1>5. Uncounted(s) \in Int
  <2> DEFINE a == s.due["rdp"].inc  b == s.due["rdp"].dec  c == s.due["owner"].inc  d == s.due["owner"].dec
  <2>1. a \in Int /\ b \in Int /\ c \in Int /\ d \in Int
    BY <1>3 DEF Threads
  <2>2. Uncounted(s) = a - b + c - d
    BY DEF Uncounted
  <2> HIDE DEF a, b, c, d
  <2> QED  BY <2>1, <2>2
<1> QED  BY <1>1, <1>3, <1>4, <1>5

(* The files that are open can be counted, and are no more than fit.       *)
LEMMA CountBounded ==
    ASSUME NEW s, Sound(s)
    PROVE  /\ s.fs.next \in Nat /\ s.fs.next <= MaxFiles /\ MaxFiles \in Nat
           /\ s.open \subseteq 0 .. s.fs.next - 1 /\ IsFiniteSet(s.open)
           /\ OpenFiles(s) \in Int /\ Uncounted(s) \in Int /\ Cardinality(s.open) \in Nat
           /\ Cardinality(0 .. s.fs.next - 1) = s.fs.next
<1>1. s.fs.next \in Nat /\ s.fs.next <= MaxFiles /\ MaxFiles \in Nat
  BY DriveConsts DEF Sound, Table, Pool
<1>2. s.open \subseteq 0 .. s.fs.next - 1
  BY DEF Sound, Table, Pool
<1>3. /\ IsFiniteSet(0 .. s.fs.next - 1)
      /\ Cardinality(0 .. s.fs.next - 1) = IF 0 > s.fs.next - 1 THEN 0 ELSE (s.fs.next - 1) - 0 + 1
  <2>1. 0 \in Int /\ s.fs.next - 1 \in Int
    BY <1>1
  <2> QED  BY <2>1, FS_Interval
<1>4. Cardinality(0 .. s.fs.next - 1) = s.fs.next
  BY <1>1, <1>3
<1>5. IsFiniteSet(s.open)
  BY <1>2, <1>3, FS_Subset
<1>6. Cardinality(s.open) \in Nat
  BY <1>5, FS_CardinalityType
<1>7. OpenFiles(s) \in Int /\ Uncounted(s) \in Int
  BY CountsInt DEF Sound, Table
<1> QED  BY <1>1, <1>2, <1>4, <1>5, <1>6, <1>7

(* When the pool is about to give out an id beyond the table, all entries  *)
(* are open.                                                               *)
LEMMA FullTable ==
    ASSUME NEW s, Sound(s), TableFull(s)
    PROVE  Cardinality(s.open) = MaxFiles
<1>1. s.fs.next = MaxFiles
  BY CountBounded DEF TableFull
<1>2. ToSet(s.fs.free) = {}
  BY DEF TableFull, ToSet
<1>3. s.open = 0 .. s.fs.next - 1
  BY <1>2 DEF Sound, Table, Pool
<1> QED  BY <1>1, <1>3, CountBounded

(* The count moves with the entries.                                       *)
LEMMA CountMoves ==
    ASSUME NEW s, Balanced(s), NEW t, s.fault = "none", t.fault = "none",
           t.fs.n = s.fs.n, t.fs.lost = s.fs.lost, t.due = s.due,
           t.fs.inc \in Int, t.fs.dec \in Int,
           Cardinality(s.open) \in Nat, Cardinality(t.open) \in Nat,
           Cardinality(t.open) - Cardinality(s.open) = (t.fs.inc - s.fs.inc) - (t.fs.dec - s.fs.dec)
    PROVE  Balanced(t)
<1> DEFINE c == Cardinality(s.open)  d == Cardinality(t.open)
<1>1. Uncounted(t) = Uncounted(s) /\ Uncounted(s) \in Int
  BY DEF Balanced, Uncounted, Threads
<1>2. s.fs.n + s.fs.inc - s.fs.dec + Uncounted(s) + s.fs.lost = c
  BY DEF Balanced, OpenFiles
<1> HIDE DEF c, d
<1>3. c \in Nat /\ d \in Nat /\ d - c = (t.fs.inc - s.fs.inc) - (t.fs.dec - s.fs.dec)
  BY DEF c, d
<1>4. s.fs.n \in Int /\ s.fs.inc \in Int /\ s.fs.dec \in Int /\ s.fs.lost \in Int
  BY DEF Balanced
<1>5. t.fs.n + t.fs.inc - t.fs.dec + Uncounted(t) + t.fs.lost = d
  BY <1>1, <1>2, <1>3, <1>4
<1> QED  BY <1>5 DEF Balanced, OpenFiles, d

(* The table is overrun: every entry is open while the count is below.     *)
LEMMA Overruns ==
    ASSUME NEW s, Sound(s), Ready(s), OpenFiles(s) < MaxFiles, TableFull(s)
    PROVE  Alike(s, Faulted(s, "overrun"))
<1> DEFINE t == Faulted(s, "overrun")
<1>1. /\ Shape(t) /\ SameHolders(s, t) /\ t.fs = s.fs /\ t.open = s.open /\ t.due = s.due
  BY DEF Faulted, Sound, Shape, StreamFields, SameHolders
<1> HIDE DEF t
<1>2. Cardinality(s.open) = MaxFiles /\ MaxFiles \in Nat
  BY FullTable, DriveConsts
<1>3. s.fs.n < Cardinality(s.open)
  BY <1>2 DEF Sound, Table, Balanced, Ready, OpenFiles
<1>4. Balanced(t)
  BY <1>1, <1>3 DEF Sound, Table, Balanced, OpenFiles, Uncounted
<1>5. Table(t)
  BY <1>1, <1>4 DEF Sound, Table, Pool, Found
<1> QED  BY <1>1, <1>5 DEF Alike, Sound, t

(* The program follows a NULL stream.                                      *)
LEMMA NullStream ==
    ASSUME NEW s, Sound(s)
    PROVE  Alike(s, Faulted(s, "null_stream"))
<1> DEFINE t == Faulted(s, "null_stream")
<1>1. /\ Shape(t) /\ SameHolders(s, t) /\ t.fs = s.fs /\ t.open = s.open /\ t.due = s.due
      /\ t.fault # "overrun"
  BY DEF Faulted, Sound, Shape, StreamFields, SameHolders
<1> HIDE DEF t
<1>2. Balanced(t)
  <2>1. OpenFiles(t) = OpenFiles(s) /\ Uncounted(t) = Uncounted(s)
    BY <1>1 DEF OpenFiles, Uncounted
  <2> QED  BY <1>1, <2>1 DEF Sound, Table, Balanced
<1>3. Table(t)
  <2>1. Pool(t)
    BY <1>1 DEF Sound, Table, Pool
  <2>2. Found(t)
    BY <1>1 DEF Sound, Table, Found
  <2> QED  BY <1>2, <2>1, <2>2 DEF Table
<1> QED  BY <1>1, <1>3 DEF Alike, Sound, t

(* The pool gives out an id that is not open, and an entry of the table    *)
(* unless it is full.                                                      *)
LEMMA EntryAdded ==
    ASSUME NEW s, Sound(s), Ready(s), OpenFiles(s) < MaxFiles, NEW p, NEW mode
    PROVE  IF TableFull(s) THEN NotOpened(s, AddEntry(s, p, mode)) ELSE Fresh(s, AddEntry(s, p, mode))
<1> DEFINE o == AddEntry(s, p, mode)  t == o.s
<1>0. /\ s.fs.next \in Nat /\ s.fs.next <= MaxFiles /\ MaxFiles \in Nat
      /\ s.open \subseteq 0 .. s.fs.next - 1 /\ IsFiniteSet(s.open) /\ Cardinality(s.open) \in Nat
  BY CountBounded
<1>1. ASSUME NEW x, x \notin s.open
      PROVE  /\ Cardinality(s.open \cup {x}) = Cardinality(s.open) + 1
             /\ Cardinality(s.open \cup {x}) \in Nat
  <2>1. Cardinality(s.open \cup {x}) = Cardinality(s.open) + 1
    BY <1>0, <1>1, FS_AddElement
  <2> QED  BY <1>0, <2>1
<1>2. CASE TableFull(s)
  <2>1. o = [s |-> Faulted(s, "overrun"), id |-> MaxFiles]
    BY <1>2 DEF AddEntry
  <2> QED  BY <1>0, <1>2, <2>1, Overruns DEF NotOpened
<1>3. ASSUME ~TableFull(s), o.id \in Int, o.id \notin s.open, o.id \in 0 .. MaxFiles - 1, Pool(t), Shape(t),
             t.open = s.open \cup {o.id}, SameHolders(s, t), t.fs.inc = s.fs.inc + 1, t.fs.dec = s.fs.dec,
             t.fs.n = s.fs.n, t.fs.lost = s.fs.lost, t.due = s.due, t.fault = s.fault
      PROVE  Fresh(s, o)
  <2> HIDE DEF o
  <2>1. /\ Cardinality(t.open) = Cardinality(s.open) + 1
        /\ Cardinality(t.open) \in Nat
    BY <1>1, <1>3
  <2>2. s.fs.inc \in Int /\ s.fs.dec \in Int
    BY DEF Sound, Table, Balanced
  <2>3. Balanced(t)
    <3> DEFINE c == Cardinality(s.open)  d == Cardinality(t.open)
    <3> HIDE DEF c, d
    <3>1. d = c + 1 /\ c \in Nat /\ d \in Nat
      BY <1>0, <2>1 DEF c, d
    <3>2. d - c = (t.fs.inc - s.fs.inc) - (t.fs.dec - s.fs.dec)
      BY <1>3, <2>2, <3>1
    <3>3. t.fs.inc \in Int /\ t.fs.dec \in Int
      BY <1>3, <2>2
    <3> QED  BY <1>3, <3>1, <3>2, <3>3, CountMoves DEF Sound, Table, Ready, c, d
  <2>4. Ready(t)
    BY <1>3, <2>2 DEF Ready
  <2>5. Sound(t)
    BY <1>3, <2>3 DEF Sound, Table, Found
  <2> QED  BY <1>3, <2>4, <2>5 DEF Fresh
<1>4. CASE ~TableFull(s) /\ s.fs.free = <<>>
  <2>1. o.id = s.fs.next /\ s.fs.next < MaxFiles
    BY <1>0, <1>4 DEF AddEntry, TableFull
  <2>2. /\ Shape(t) /\ SameHolders(s, t)
        /\ t.fs.next = s.fs.next + 1 /\ t.fs.free = s.fs.free
        /\ t.open = s.open \cup {o.id} /\ t.fs.inc = s.fs.inc + 1 /\ t.fs.dec = s.fs.dec
        /\ t.fs.n = s.fs.n /\ t.fs.lost = s.fs.lost /\ t.due = s.due /\ t.fault = s.fault
    BY <1>4, <2>1 DEF AddEntry, Sound, Shape, StreamFields, SameHolders
  <2> HIDE DEF t, o
  <2>3. ToSet(s.fs.free) = {}
    BY <1>4 DEF ToSet
  <2>4. s.open = 0 .. s.fs.next - 1
    BY <2>3 DEF Sound, Table, Pool
  <2>5. o.id \in 0 .. MaxFiles - 1 /\ o.id \notin s.open /\ o.id \in Int
    BY <1>0, <2>1, <2>4
  <2>6. t.fs.next \in 0 .. MaxFiles
    BY <1>0, <2>1, <2>2
  <2>7. t.open \cup ToSet(t.fs.free) = 0 .. t.fs.next - 1
    BY <1>0, <2>1, <2>2, <2>3, <2>4
  <2>8. t.open \cap ToSet(t.fs.free) = {}
    BY <2>2, <2>3
  <2>9. Pool(t)
    BY <2>2, <2>6, <2>7, <2>8 DEF Pool, Table, Sound
  <2> QED  BY <1>3, <1>4, <2>2, <2>5, <2>9 DEF t, o
<1>5. CASE ~TableFull(s) /\ s.fs.free # <<>>
  <2>1. o.id = Head(s.fs.free)
    BY <1>5 DEF AddEntry
  <2>2. /\ Shape(t) /\ SameHolders(s, t)
        /\ t.fs.next = s.fs.next /\ t.fs.free = Tail(s.fs.free)
        /\ t.open = s.open \cup {o.id} /\ t.fs.inc = s.fs.inc + 1 /\ t.fs.dec = s.fs.dec
        /\ t.fs.n = s.fs.n /\ t.fs.lost = s.fs.lost /\ t.due = s.due /\ t.fault = s.fault
    BY <1>5, <2>1 DEF AddEntry, Sound, Shape, StreamFields, SameHolders
  <2> HIDE DEF t, o
  <2>3. /\ ToSet(s.fs.free) = ToSet(t.fs.free) \cup {o.id}
        /\ t.fs.free \in Seq(Int) /\ IsInjective(t.fs.free) /\ o.id \notin ToSet(t.fs.free)
    BY <1>5, <2>1, <2>2, SetOfTail DEF Sound, Table, Pool
  <2>4. o.id \in 0 .. s.fs.next - 1 /\ o.id \notin s.open
    BY <2>3 DEF Sound, Table, Pool
  <2>5. t.open \cup ToSet(t.fs.free) = 0 .. t.fs.next - 1 /\ t.open \cap ToSet(t.fs.free) = {}
    BY <2>2, <2>3 DEF Sound, Table, Pool
  <2>6. Pool(t)
    BY <2>2, <2>3, <2>5 DEF Table, Sound, Pool
  <2>7. o.id \in 0 .. MaxFiles - 1 /\ o.id \in Int
    BY <1>0, <2>4
  <2> QED  BY <1>3, <1>5, <2>2, <2>4, <2>6, <2>7 DEF t, o
<1> QED  BY <1>2, <1>4, <1>5

(* guac_rdp_fs_close gives the id of an open file back.                    *)
LEMMA FileClosed ==
    ASSUME NEW s, Sound(s), s.fault = "none", NEW id \in s.open
    PROVE  Closes(s, CloseFile(s, id), id)
<1> DEFINE t == CloseFile(s, id)
<1>0. /\ s.fs.next \in Nat /\ s.fs.next <= MaxFiles /\ MaxFiles \in Nat
      /\ s.open \subseteq 0 .. s.fs.next - 1 /\ IsFiniteSet(s.open) /\ Cardinality(s.open) \in Nat
  BY CountBounded
<1>1. ValidId(id) /\ id \in Int
  BY <1>0 DEF ValidId
<1>2. /\ Shape(t) /\ SameHolders(s, t) /\ t.fs.next = s.fs.next
      /\ t.fs.free = Append(s.fs.free, id) /\ t.open = s.open \ {id}
      /\ t.fs.inc = s.fs.inc /\ t.fs.dec = s.fs.dec + 1
      /\ t.fs.n = s.fs.n /\ t.fs.lost = s.fs.lost /\ t.due = s.due /\ t.fault = s.fault
  BY <1>1 DEF CloseFile, Sound, Shape, StreamFields, SameHolders
<1> HIDE DEF t
<1>3. /\ ToSet(t.fs.free) = ToSet(s.fs.free) \cup {id} /\ IsInjective(t.fs.free)
      /\ t.fs.free \in Seq(Int)
  BY <1>1, <1>2, SetOfAppend, AppendProperties DEF Sound, Table, Pool
<1>4. t.open \cup ToSet(t.fs.free) = 0 .. t.fs.next - 1 /\ t.open \cap ToSet(t.fs.free) = {}
  BY <1>2, <1>3 DEF Sound, Table, Pool
<1>5. Pool(t)
  BY <1>2, <1>3, <1>4 DEF Sound, Table, Pool
<1>6. Balanced(t)
  <2> DEFINE c == Cardinality(s.open)  d == Cardinality(t.open)
  <2>1. d = c - 1 /\ d \in Nat
    BY <1>0, <1>2, FS_RemoveElement, FS_CardinalityType
  <2> HIDE DEF c, d
  <2>2. s.fs.inc \in Int /\ s.fs.dec \in Int /\ c \in Nat
    BY <1>0 DEF Sound, Table, Balanced, c
  <2>3. d - c = (t.fs.inc - s.fs.inc) - (t.fs.dec - s.fs.dec) /\ t.fs.inc \in Int /\ t.fs.dec \in Int
    BY <1>2, <2>1, <2>2
  <2> QED  BY <1>2, <2>1, <2>2, <2>3, CountMoves DEF Sound, Table, c, d
<1>7. Table(t)
  BY <1>2, <1>5, <1>6 DEF Sound, Table, Found
<1> QED  BY <1>2, <1>7 DEF Closes, Sound, t

(* open(2) and the entry for what it returns.                              *)
LEMMA EntryOpens ==
    ASSUME NEW s, Sound(s), Ready(s), OpenFiles(s) < MaxFiles, NEW p, NEW f, NEW mode
    PROVE  Opens(s, OpenEntry(s, p, f, mode))
<1> DEFINE t == PosixOpen(s, p, f)
<1>1. CASE PosixOpenError(s, p, f) # "none"
  <2>1. Alike(s, s)
    BY QuietSelf, QuietAlike DEF Sound
  <2> QED  BY <1>1, <2>1, ErrorsNegative, DriveConsts DEF OpenEntry, Opens, NotOpened
<1>2. CASE PosixOpenError(s, p, f) = "none"
  <2>1. OpenEntry(s, p, f, mode) = AddEntry(t, p, mode)
    BY <1>2 DEF OpenEntry
  <2>2. Quiet(s, t)
    BY PosixQuiet DEF Sound
  <2> HIDE DEF t
  <2>3. Alike(s, t) /\ Ready(t) /\ OpenFiles(t) < MaxFiles
    BY <2>2, QuietAlike, QuietReady
  <2>4. Opens(t, AddEntry(t, p, mode))
    BY <2>3, EntryAdded DEF Alike, Opens
  <2> QED  BY <2>1, <2>3, <2>4, AlikeOpens
<1> QED  BY <1>1, <1>2

(* guac_rdp_fs_open, whatever the path and the flags.                      *)
LEMMA FileOpens ==
    ASSUME NEW s, Sound(s), Ready(s), NEW path, NEW access, NEW disp, NEW dirOpt
    PROVE  Opens(s, Open(s, path, access, disp, dirOpt))
<1> DEFINE p == NormalizePath(Abs(path.comps))
           f == Flags(access, disp)
           t == Superseded(s, p, disp)
           o == Open(s, path, access, disp, dirOpt)
<1>1. Alike(s, s)
  BY QuietSelf, QuietAlike DEF Sound
<1>2. ASSUME NEW u, Quiet(s, u), OpenFiles(s) < MaxFiles, NEW g
      PROVE  Opens(s, OpenAgain(u, p, g, access))
  <2>0. Alike(s, u) /\ Ready(u) /\ OpenFiles(u) < MaxFiles
    BY <1>2, QuietAlike, QuietReady
  <2>1. \A h, mode : Opens(u, OpenEntry(u, p, h, mode))
    BY <2>0, EntryOpens DEF Alike
  <2>2. Opens(u, OpenAgain(u, p, g, access))
    BY <2>1 DEF OpenAgain
  <2> QED  BY <2>0, <2>2, AlikeOpens
<1>3. Quiet(s, t)
  BY PosixQuiet, QuietSelf DEF Superseded, Sound
<1>4. CASE OpenRefused(s, path, disp) # 0
  <2>1. OpenRefused(s, path, disp) \in Int /\ OpenRefused(s, path, disp) < 0
    BY <1>4 DEF OpenRefused, ENFILE, ENOENT, ENOSYS
  <2>2. o = [s |-> s, id |-> OpenRefused(s, path, disp)]
    BY <1>4 DEF Open
  <2> QED  BY <1>1, <2>1, <2>2, DriveConsts DEF Opens, NotOpened
<1>5. CASE OpenRefused(s, path, disp) = 0
  <2>1. OpenFiles(s) < MaxFiles
    <3>1. OpenFiles(s) \in Int /\ MaxFiles \in Int
      BY CountBounded
    <3>2. ~(OpenFiles(s) >= MaxFiles)
      BY <1>5 DEF OpenRefused, ENFILE
    <3> QED  BY <3>1, <3>2
  <2>2. CASE dirOpt /\ f.creat
    <3>1. o = OpenDirectory(t, p, f, access)
      BY <1>5, <2>2 DEF Open
    <3> HIDE DEF t, o, p, f
    <3>2. CASE MkdirError(t, p, f.excl) # "none"
      <4>1. o = [s |-> t, id |-> GetErrorcode(MkdirError(t, p, f.excl))]
        BY <3>1, <3>2 DEF OpenDirectory
      <4> QED  BY <1>3, <4>1, QuietAlike, ErrorsNegative, DriveConsts DEF Opens, NotOpened, o
    <3>3. CASE MkdirError(t, p, f.excl) = "none"
      <4> DEFINE u == IF Exists(t, p) THEN t ELSE MakeInode(t, p, TRUE)
      <4>0. Shape(t)
        BY <1>3 DEF Quiet
      <4>1. Quiet(t, u)
        BY <4>0, PosixQuiet, QuietSelf
      <4>2. o = OpenAgain(u, p, [f EXCEPT !.creat = FALSE, !.excl = FALSE], access)
        BY <3>1, <3>3 DEF OpenDirectory
      <4> HIDE DEF u
      <4>3. Quiet(s, u)
        BY <1>3, <4>1, QuietTwice
      <4> QED  BY <1>2, <2>1, <4>2, <4>3 DEF o
    <3> QED  BY <3>2, <3>3
  <2>3. CASE ~(dirOpt /\ f.creat)
    <3>1. o = OpenAgain(t, p, f, access)
      BY <1>5, <2>3 DEF Open
    <3> HIDE DEF t, o, p, f
    <3> QED  BY <1>2, <1>3, <2>1, <3>1 DEF o
  <2> QED  BY <2>2, <2>3
<1> QED  BY <1>4, <1>5

(* A file that was opened is given to the server, ...                      *)
LEMMA ToServer ==
    ASSUME NEW s, DriveInv(s), NEW o, Fresh(s, o), NEW t, Sound(t),
           t.open = o.s.open, t.srv = s.srv \cup {o.id}, t.leaked = s.leaked,
           \A k \in 1 .. MaxStreams : t.strm[k].kind = s.strm[k].kind /\ t.strm[k].id = s.strm[k].id
    PROVE  DriveInv(t)
<1>1. HeldBy(t) = HeldBy(s)
  BY DEF HeldBy
<1>2. {t.strm[k].id : k \in HeldBy(t)} = {s.strm[k].id : k \in HeldBy(s)}
  BY <1>1 DEF HeldBy
<1>3. Holders(t)
  BY <1>1, <1>2 DEF Holders, DriveInv, Fresh, HeldBy
<1> QED  BY <1>3 DEF DriveInv, Sound

(* ... to a stream that was free, ...                                      *)
LEMMA ToStream ==
    ASSUME NEW s, DriveInv(s), NEW o, Fresh(s, o), NEW t, Sound(t),
           t.open = o.s.open, t.srv = s.srv, t.leaked = s.leaked,
           NEW n \in 1 .. MaxStreams, n \notin HeldBy(s), t.strm[n].kind \in Active, t.strm[n].id = o.id,
           \A k \in (1 .. MaxStreams) \ {n} :
              t.strm[k].kind = s.strm[k].kind /\ t.strm[k].id = s.strm[k].id
    PROVE  DriveInv(t)
<1>1. HeldBy(t) = HeldBy(s) \cup {n}
  BY DEF HeldBy
<1>2. \A k \in HeldBy(s) : t.strm[k].id = s.strm[k].id /\ t.strm[k].id \in s.open
  BY DEF HeldBy, DriveInv, Holders
<1>3. {t.strm[k].id : k \in HeldBy(t)} = {s.strm[k].id : k \in HeldBy(s)} \cup {o.id}
  BY <1>1, <1>2
<1>4. o.id \notin s.open /\ o.id \notin s.srv \cup s.leaked
  BY DEF DriveInv, Holders, Fresh
<1>5. t.open = t.srv \cup {t.strm[k].id : k \in HeldBy(t)} \cup t.leaked
  BY <1>3 DEF Holders, DriveInv, Fresh
<1>6. \A k \in HeldBy(t) : t.strm[k].id \notin t.srv \cup t.leaked
  BY <1>1, <1>2, <1>4 DEF Holders, DriveInv
<1>7. \A k, l \in HeldBy(t) : t.strm[k].id = t.strm[l].id => k = l
  BY <1>1, <1>2, <1>4 DEF Holders, DriveInv
<1> QED  BY <1>5, <1>6, <1>7 DEF DriveInv, Sound, Holders

(* ... or to nobody.                                                       *)
LEMMA ToNobody ==
    ASSUME NEW s, DriveInv(s), NEW o, Fresh(s, o), NEW t, Sound(t),
           t.open = o.s.open, t.srv = s.srv, t.leaked = s.leaked \cup {o.id},
           \A k \in 1 .. MaxStreams : t.strm[k].kind = s.strm[k].kind /\ t.strm[k].id = s.strm[k].id
    PROVE  DriveInv(t)
<1>1. HeldBy(t) = HeldBy(s)
  BY DEF HeldBy
<1>2. {t.strm[k].id : k \in HeldBy(t)} = {s.strm[k].id : k \in HeldBy(s)}
  BY <1>1 DEF HeldBy
<1>3. Holders(t)
  BY <1>1, <1>2 DEF Holders, DriveInv, Fresh, HeldBy
<1> QED  BY <1>3 DEF DriveInv, Sound

(* The server closes a file it holds.                                      *)
LEMMA FromServer ==
    ASSUME NEW s, DriveInv(s), NEW id \in s.srv, NEW t, Sound(t),
           t.open = s.open \ {id}, t.srv = s.srv \ {id}, t.leaked = s.leaked,
           \A k \in 1 .. MaxStreams : t.strm[k].kind = s.strm[k].kind /\ t.strm[k].id = s.strm[k].id
    PROVE  DriveInv(t)
<1>1. HeldBy(t) = HeldBy(s)
  BY DEF HeldBy
<1>2. {t.strm[k].id : k \in HeldBy(t)} = {s.strm[k].id : k \in HeldBy(s)}
  BY <1>1 DEF HeldBy
<1>3. id \notin {s.strm[k].id : k \in HeldBy(s)} \cup s.leaked
  BY DEF DriveInv, Holders
<1>4. t.open = t.srv \cup {t.strm[k].id : k \in HeldBy(t)} \cup t.leaked
  BY <1>2, <1>3 DEF Holders, DriveInv
<1> QED  BY <1>1, <1>4 DEF DriveInv, Sound, Holders, HeldBy

(* A stream ends and its file is closed, or left behind.                   *)
LEMMA FromStream ==
    ASSUME NEW s, DriveInv(s), NEW n \in HeldBy(s), NEW t, Sound(t), t.srv = s.srv,
           \/ t.open = s.open \ {s.strm[n].id} /\ t.leaked = s.leaked
           \/ t.open = s.open /\ t.leaked = s.leaked \cup {s.strm[n].id},
           t.strm[n].kind \notin Active,
           \A k \in (1 .. MaxStreams) \ {n} :
              t.strm[k].kind = s.strm[k].kind /\ t.strm[k].id = s.strm[k].id
    PROVE  DriveInv(t)
<1>1. HeldBy(t) = HeldBy(s) \ {n}
  BY DEF HeldBy
<1>2. \A k \in HeldBy(t) : t.strm[k].id = s.strm[k].id /\ k \in HeldBy(s) /\ s.strm[k].id # s.strm[n].id
  BY <1>1 DEF HeldBy, DriveInv, Holders
<1>3. {s.strm[k].id : k \in HeldBy(s)} = {t.strm[k].id : k \in HeldBy(t)} \cup {s.strm[n].id}
  BY <1>1, <1>2
<1>4. s.strm[n].id \notin s.srv \cup s.leaked \cup {t.strm[k].id : k \in HeldBy(t)}
  BY <1>2 DEF Holders, DriveInv
<1>5. t.open = t.srv \cup {t.strm[k].id : k \in HeldBy(t)} \cup t.leaked
  BY <1>3, <1>4 DEF Holders, DriveInv
<1>6. \A k \in HeldBy(t) : t.strm[k].id \notin t.srv \cup t.leaked
  BY <1>2 DEF Holders, DriveInv
<1>7. \A k, l \in HeldBy(t) : t.strm[k].id = t.strm[l].id => k = l
  BY <1>2 DEF Holders, DriveInv
<1>8. t.srv \cap t.leaked = {}
  BY <1>4 DEF Holders, DriveInv
<1> QED  BY <1>5, <1>6, <1>7, <1>8 DEF DriveInv, Sound, Holders

(* The owner leaves, and with it all streams.                              *)
LEMMA StreamsFreedSound == ASSUME NEW s, DriveInv(s)  PROVE DriveInv(StreamsFreed(s))
<1> DEFINE t == StreamsFreed(s)
<1>1. /\ DOMAIN t = DOMAIN s /\ t.fs = s.fs /\ t.open = s.open /\ t.srv = s.srv
      /\ t.leaked = s.leaked \cup {s.strm[k].id : k \in HeldBy(s)} /\ t.due = s.due /\ t.fault = s.fault
  BY DEF StreamsFreed, HeldBy, Active, DriveInv, Shape, StreamFields
<1>2. t.strm = [k \in DOMAIN s.strm |-> IF k \in HeldBy(s) THEN [s.strm[k] EXCEPT !.kind = "gone"]
                                        ELSE s.strm[k]]
  BY DEF StreamsFreed, HeldBy, Active, DriveInv, Shape, StreamFields
<1> HIDE DEF t
<1>3. Shape(t)
  BY <1>1, <1>2 DEF DriveInv, Shape, StreamFields
<1>4. \A k \in 1 .. MaxStreams : t.strm[k].kind \notin Active
  BY <1>2 DEF HeldBy, Active, DriveInv, Shape, StreamFields
<1>5. HeldBy(t) = {}
  BY <1>4 DEF HeldBy
<1>6. Table(t)
  BY <1>1, TableSame DEF SameTable, SameCount, DriveInv
<1>7. Holders(t)
  BY <1>1, <1>5 DEF Holders, DriveInv
<1> QED  BY <1>3, <1>6, <1>7 DEF DriveInv, t

(* The stream that is taken next is free.                                  *)
LEMMA SlotFree ==
    ASSUME NEW s, FreeSlots(s) # {}
    PROVE  NextSlot(s) \in FreeSlots(s) /\ NextSlot(s) \in 1 .. MaxStreams /\ NextSlot(s) \notin HeldBy(s)
<1>1. FreeSlots(s) \subseteq Nat
  BY DriveConsts DEF FreeSlots
<1>2. \E m \in FreeSlots(s) : \A j \in FreeSlots(s) : m <= j
  BY <1>1, SmallestOf
<1>3. NextSlot(s) \in FreeSlots(s)
  BY <1>2 DEF NextSlot, Min
<1> QED  BY <1>3 DEF FreeSlots, HeldBy, Active

(* A stream is begun for a file that was opened.                           *)
LEMMA StreamBegins ==
    ASSUME NEW s, DriveInv(s), FreeSlots(s) # {}, NEW o, Fresh(s, o),
           NEW v, StreamFields \subseteq DOMAIN v, v.kind \in Active, v.id = o.id
    PROVE  LET t == [o.s EXCEPT !.strm[NextSlot(o.s)] = v] IN DriveInv(t) /\ t.srv = s.srv
<1> DEFINE n == NextSlot(o.s)
           t == [o.s EXCEPT !.strm[n] = v]
<1>1. FreeSlots(o.s) = FreeSlots(s) /\ HeldBy(o.s) = HeldBy(s)
  BY DEF FreeSlots, HeldBy, Fresh, SameHolders
<1>2. n \in 1 .. MaxStreams /\ n \notin HeldBy(s)
  BY <1>1, SlotFree
<1> HIDE DEF n
<1>3. /\ DOMAIN t = DOMAIN o.s /\ t.fs = o.s.fs /\ t.open = o.s.open /\ t.srv = s.srv /\ t.leaked = s.leaked
      /\ t.strm = [o.s.strm EXCEPT ![n] = v] /\ t.due = o.s.due /\ t.fault = o.s.fault
  BY DEF Fresh, Sound, Shape, StreamFields, SameHolders
<1> HIDE DEF t
<1>4. DOMAIN o.s.strm = 1 .. MaxStreams
  BY DEF Fresh, Sound, Shape, StreamFields
<1>5. t.strm[n] = v /\ \A k \in (1 .. MaxStreams) \ {n} : t.strm[k] = o.s.strm[k]
  BY <1>2, <1>3, <1>4
<1>6. Shape(t)
  BY <1>3, <1>4, <1>5 DEF Fresh, Sound, Shape, StreamFields
<1>7. Sound(t)
  BY <1>3, <1>6, TableSame DEF Fresh, Sound, SameTable, SameCount
<1>8. DriveInv(t)
  <2>1. \A k \in (1 .. MaxStreams) \ {n} :
           t.strm[k].kind = s.strm[k].kind /\ t.strm[k].id = s.strm[k].id
    BY <1>5 DEF Fresh, SameHolders
  <2>2. t.strm[n].kind \in Active /\ t.strm[n].id = o.id
    BY <1>5
  <2> QED  BY <1>2, <1>3, <1>7, <2>1, <2>2, ToStream
<1> QED  BY <1>3, <1>8 DEF t, n

(* guac_rdp_download_to_user                                               *)
LEMMA DownloadSound ==
    ASSUME NEW s, DriveInv(s), Steady(s), FreeSlots(s) # {}, NEW p, NEW none \in BOOLEAN
    PROVE  DriveInv(DownloadToUser(s, p, none)) /\ DownloadToUser(s, p, none).srv = s.srv
<1> DEFINE o == Open(s, Abs(p), "read", "OPEN", FALSE)  d == DownloadToUser(s, p, none)
<1>1. Opens(s, o)
  BY SteadyReady, FileOpens DEF DriveInv, Sound
<1> HIDE DEF o
<1>2. CASE ~s.owner \/ DisableDownload
  BY <1>2 DEF DownloadToUser
<1>3. CASE ~(~s.owner \/ DisableDownload)
  <2>1. d = BeginDownload(s, o, none)
    BY <1>3 DEF DownloadToUser, o
  <2> HIDE DEF d
  <2>2. CASE NotOpened(s, o)
    <3>1. d = o.s
      BY <2>1, <2>2 DEF BeginDownload, NotOpened, ValidId
    <3> QED  BY <2>2, <3>1, AlikeSound DEF NotOpened, Alike, SameHolders, d
  <2>3. CASE Fresh(s, o) /\ none
    <3>1. d = Faulted(s, "null_stream")
      BY <2>1, <2>3, Zenon DEF BeginDownload, Fresh, ValidId
    <3>2. Sound(s)
      BY DEF DriveInv, Sound
    <3>3. Alike(s, d)
      BY <3>1, <3>2, NullStream
    <3>4. DriveInv(d) /\ d.srv = s.srv
      BY <3>3, AlikeSound DEF Alike, SameHolders
    <3> QED  BY <3>4 DEF d
  <2>4. CASE Fresh(s, o) /\ ~none
    <3> DEFINE v == [NoStream EXCEPT !.kind = "down", !.id = o.id, !.src = o.s.fs.files[o.id].ino]
    <3>1. d = [o.s EXCEPT !.strm[NextSlot(o.s)] = v]
      BY <2>1, <2>4 DEF BeginDownload, Fresh, ValidId
    <3>2. StreamFields \subseteq DOMAIN v /\ v.kind \in Active /\ v.id = o.id
      BY DEF NoStream, StreamFields, Active
    <3> HIDE DEF v
    <3> QED  BY <2>4, <3>1, <3>2, StreamBegins DEF d
  <2> QED  BY <1>1, <2>2, <2>3, <2>4 DEF Opens
<1> QED  BY <1>2, <1>3

(* Steps that change neither the table nor who holds its entries.          *)
LEMMA QuietSteps ==
    ASSUME NEW s, Shape(s)
    PROVE  /\ \A r : Quiet(s, [s EXCEPT !.reply = r])
           /\ \A x : Quiet(s, [s EXCEPT !.chan.told = x])
           /\ \A id, off, v : Quiet(s, WriteFile(s, id, off, v))
           /\ \A id : Quiet(s, DeleteFile(s, id).s)
           /\ \A id, path : Quiet(s, RenameFile(s, id, path).s)
           /\ \A id, len : Quiet(s, TruncateFile(s, id, len).s)
           /\ \A id, entries : Quiet(s, SetDirStream(s, id, entries))
           /\ \A id, x : Quiet(s, [s EXCEPT !.fs.files[id].pat = x])
<1>1. ASSUME NEW r  PROVE Quiet(s, [s EXCEPT !.reply = r])
  BY DEF Quiet, Shape, StreamFields, SameTable, SameCount, SameHolders
<1>2. ASSUME NEW x  PROVE Quiet(s, [s EXCEPT !.chan.told = x])
  BY DEF Quiet, Shape, StreamFields, SameTable, SameCount, SameHolders
<1>3. ASSUME NEW t, Quiet(s, t), NEW id, NEW x  PROVE Quiet(s, [t EXCEPT !.fs.files[id].written = x])
  BY <1>3 DEF Quiet, Shape, StreamFields, SameTable, SameCount, SameHolders
<1>4. ASSUME NEW id, NEW off, NEW v  PROVE Quiet(s, WriteFile(s, id, off, v))
  <2>1. \A ino, data : Quiet(s, SetData(s, ino, data))
    BY PosixQuiet
  <2>2. PICK t, x : Quiet(s, t) /\ WriteFile(s, id, off, v) = [t EXCEPT !.fs.files[id].written = x]
    BY <2>1 DEF WriteFile
  <2> QED  BY <1>3, <2>2
<1>5. ASSUME NEW id  PROVE Quiet(s, DeleteFile(s, id).s)
  <2>1. DeleteFile(s, id).s = s \/ \E p : DeleteFile(s, id).s = Unlinked(s, p)
    BY DEF DeleteFile
  <2> QED  BY <2>1, PosixQuiet, QuietSelf
<1>6. ASSUME NEW id, NEW path  PROVE Quiet(s, RenameFile(s, id, path).s)
  <2>1. RenameFile(s, id, path).s = s \/ \E p, q : RenameFile(s, id, path).s = PosixRename(s, p, q)
    BY DEF RenameFile
  <2> QED  BY <2>1, PosixQuiet, QuietSelf
<1>7. ASSUME NEW id, NEW len  PROVE Quiet(s, TruncateFile(s, id, len).s)
  <2>1. TruncateFile(s, id, len).s = s \/ \E ino, data : TruncateFile(s, id, len).s = SetData(s, ino, data)
    BY DEF TruncateFile
  <2> QED  BY <2>1, PosixQuiet, QuietSelf
<1>8. ASSUME NEW id, NEW entries  PROVE Quiet(s, SetDirStream(s, id, entries))
  BY DEF SetDirStream, Quiet, Shape, StreamFields, SameTable, SameCount, SameHolders
<1>9. ASSUME NEW id, NEW x  PROVE Quiet(s, [s EXCEPT !.fs.files[id].pat = x])
  BY DEF Quiet, Shape, StreamFields, SameTable, SameCount, SameHolders
<1> QED  BY <1>1, <1>2, <1>4, <1>5, <1>6, <1>7, <1>8, <1>9

(* The reply to a request is not part of what the invariant is about.      *)
LEMMA ReplySound ==
    ASSUME NEW s, DriveInv(s), NEW r
    PROVE  DriveInv([s EXCEPT !.reply = r])
BY QuietSteps, QuietSound DEF DriveInv

(* A file that is opened and closed again in one step leaves the same      *)
(* files open; nothing is closed when none was opened.                     *)
LEMMA OpenedAndClosed ==
    ASSUME NEW s, Sound(s), NEW o, Opens(s, o)
    PROVE  Alike(s, CloseFile(o.s, o.id)) /\ Alike(s, Closed(o))
<1>1. CASE NotOpened(s, o)
  BY <1>1 DEF CloseFile, Closed, NotOpened, ValidId
<1>2. CASE Fresh(s, o)
  <2>1. Closes(o.s, CloseFile(o.s, o.id), o.id)
    BY <1>2, FileClosed DEF Fresh, Ready
  <2>2. Alike(s, CloseFile(o.s, o.id))
    BY <1>2, <2>1 DEF Fresh, Closes, Alike, SameHolders
  <2> QED  BY <2>2 DEF Closed
<1> QED  BY <1>1, <1>2 DEF Opens

(* guac_rdpdr_fs_process_create                                            *)
LEMMA CreateRequestSound ==
    ASSUME NEW s, DriveInv(s), Steady(s), NEW path, NEW access, NEW disp, NEW dirOpt
    PROVE  DriveInv(ProcessCreate(s, path, access, disp, dirOpt))
<1> DEFINE o == Open(s, path, access, disp, dirOpt)
<1>1. Opens(s, o)
  BY SteadyReady, FileOpens DEF DriveInv, Sound
<1>2. ProcessCreate(s, path, access, disp, dirOpt) = Created(o)
  BY DEF ProcessCreate
<1> HIDE DEF o
<1>3. CASE NotOpened(s, o)
  <2>1. Created(o) = [o.s EXCEPT !.reply = Coded(o.id)]
    BY <1>3 DEF Created, NotOpened, ValidId
  <2> QED  BY <1>2, <1>3, <2>1, AlikeSound, ReplySound DEF NotOpened
<1>4. CASE Fresh(s, o)
  <2> DEFINE u == IF o.s.fs.files[o.id].path = <<>> /\ ~DisableDownload THEN MakeDownload(o.s) ELSE o.s
             t == [u EXCEPT !.reply = Coded(o.id), !.srv = @ \cup {o.id}]
  <2>1. Created(o) = t
    BY <1>4 DEF Created, Fresh, ValidId
  <2>2. Alike(o.s, u)
    <3>1. Alike(o.s, o.s)
      BY <1>4, QuietSelf, QuietAlike DEF Sound, Fresh
    <3>2. Opens(o.s, Open(o.s, Abs(<<"Download">>), "read", "OPEN_IF", TRUE))
      BY <1>4, FileOpens DEF Fresh
    <3>3. Alike(o.s, MakeDownload(o.s))
      BY <1>4, <3>2, OpenedAndClosed DEF MakeDownload, Fresh
    <3> QED  BY <3>1, <3>3
  <2> HIDE DEF u
  <2>3. /\ Shape(t) /\ SameTable(u, t) /\ t.open = u.open /\ t.srv = u.srv \cup {o.id} /\ t.leaked = u.leaked
        /\ t.strm = u.strm
    BY <2>2 DEF Alike, Sound, Shape, StreamFields, SameTable, SameCount
  <2> HIDE DEF t
  <2>4. Sound(t)
    BY <2>2, <2>3, TableSame DEF Alike, Sound
  <2>5. /\ t.open = o.s.open /\ t.srv = s.srv \cup {o.id} /\ t.leaked = s.leaked
        /\ \A k \in 1 .. MaxStreams : t.strm[k].kind = s.strm[k].kind /\ t.strm[k].id = s.strm[k].id
    BY <1>4, <2>2, <2>3 DEF Alike, Fresh, SameHolders
  <2>6. DriveInv(t)
    BY <1>4, <2>4, <2>5, ToServer
  <2> QED  BY <1>2, <2>1, <2>6
<1> QED  BY <1>1, <1>3, <1>4 DEF Opens

(* guac_rdpdr_fs_process_close, of an id the server holds or of one that   *)
(* is out of range.                                                        *)
LEMMA CloseDownloadsSound ==
    ASSUME NEW s, DriveInv(s), Steady(s), FreeSlots(s) # {}, NEW id, NEW none \in BOOLEAN
    PROVE  LET u == CloseDownloads(s, id, none) IN DriveInv(u) /\ u.srv = s.srv
<1> DEFINE u == CloseDownloads(s, id, none)
<1>1. \A p : DriveInv(DownloadToUser(s, p, none)) /\ DownloadToUser(s, p, none).srv = s.srv
  BY DownloadSound
<1>2. \/ u = s
      \/ \E p : u = DownloadToUser(s, p, none)
      \/ \E p : u = DeleteFile(DownloadToUser(s, p, none), id).s
  BY DEF CloseDownloads
<1> HIDE DEF u
<1>3. ASSUME NEW p, u = DeleteFile(DownloadToUser(s, p, none), id).s  PROVE DriveInv(u) /\ u.srv = s.srv
  <2>1. Quiet(DownloadToUser(s, p, none), u)
    BY <1>1, <1>3, QuietSteps DEF DriveInv
  <2> QED  BY <1>1, <2>1, QuietSound DEF Quiet, SameHolders
<1>4. DriveInv(u) /\ u.srv = s.srv
  BY <1>1, <1>2, <1>3
<1> QED  BY <1>4 DEF u

LEMMA CloseRequestSound ==
    ASSUME NEW s, DriveInv(s), Steady(s), FreeSlots(s) # {}, NEW id \in s.srv \cup {MaxFiles}, NEW none \in BOOLEAN
    PROVE  DriveInv(ProcessClose(s, id, none))
<1> DEFINE u == CloseDownloads(s, id, none)
           w == CloseFile(u, id)
           t == ProcessClose(s, id, none)
<1>1. DriveInv(u) /\ u.srv = s.srv
  BY CloseDownloadsSound
<1>2. CASE ~ValidId(id)
  BY <1>2, ReplySound DEF ProcessClose
<1>3. CASE ValidId(id) /\ u.fault # "none"
  BY <1>1, <1>3 DEF ProcessClose
<1>4. CASE ValidId(id) /\ u.fault = "none"
  <2>1. id \in s.srv
    BY <1>4, DriveConsts DEF ValidId
  <2>2. t = CloseDone(s, u, id)
    BY <1>4 DEF ProcessClose
  <2> HIDE DEF u, t
  <2>3. id \in u.open
    BY <1>1, <2>1 DEF DriveInv, Holders
  <2>4. Closes(u, w, id)
    BY <1>1, <1>4, <2>3, FileClosed DEF DriveInv, Sound
  <2>5. PICK h, r : t = [w EXCEPT !.reply = Reply("SUCCESS", <<0>>), !.srv = @ \ {id}, !.handed = h, !.removed = r]
    <3> DEFINE h == IF HandsOver(s, id) THEN w.handed \cup {s.fs.files[id].ino} ELSE w.handed
               r == IF GoesToOwner(s, id) THEN w.removed \cup {s.fs.files[id].ino} ELSE w.removed
    <3>1. Shape(w)
      BY <2>4 DEF Closes, Sound
    <3>2. t = [w EXCEPT !.reply = Reply("SUCCESS", <<0>>), !.srv = @ \ {id}, !.handed = h, !.removed = r]
      BY <2>2, <3>1 DEF CloseDone, Shape
    <3> QED  BY <3>2
  <2> HIDE DEF w
  <2>6. /\ Shape(t) /\ SameTable(w, t) /\ t.open = w.open /\ t.srv = w.srv \ {id} /\ t.leaked = w.leaked
        /\ t.strm = w.strm
    BY <2>4, <2>5 DEF Closes, Sound, Shape, StreamFields, SameTable, SameCount
  <2>7. Sound(t)
    BY <2>4, <2>6, TableSame DEF Closes, Sound
  <2>8. /\ t.open = u.open \ {id} /\ t.srv = u.srv \ {id} /\ t.leaked = u.leaked
        /\ \A k \in 1 .. MaxStreams : t.strm[k].kind = u.strm[k].kind /\ t.strm[k].id = u.strm[k].id
    BY <2>4, <2>6 DEF Closes, SameHolders
  <2>9. DriveInv(t)
    BY <1>1, <2>1, <2>7, <2>8, FromServer
  <2> QED  BY <2>9 DEF t
<1> QED  BY <1>2, <1>3, <1>4

(* guac_rdpdr_fs_process_query_directory: the entry that is opened for its *)
(* attributes is closed again.                                             *)
LEMMA QueryDirectorySound ==
    ASSUME NEW s, DriveInv(s), Steady(s), NEW id, NEW class, NEW initial, NEW pat
    PROVE  DriveInv(ProcessQueryDirectory(s, id, class, initial, pat))
<1>1. ASSUME NEW u, DriveInv(u), Ready(u), NEW left  PROVE DriveInv(QueryNext(u, id, class, left))
  <2>1. \A entries : DriveInv(SetDirStream(u, id, entries)) /\ Ready(SetDirStream(u, id, entries))
    BY <1>1, QuietSteps, QuietSound, QuietReady DEF DriveInv
  <2>2. ASSUME NEW w, DriveInv(w), Ready(w), NEW path
        PROVE  DriveInv(QueryEntry(Open(w, path, "read", "OPEN", FALSE), class))
    <3> DEFINE o == Open(w, path, "read", "OPEN", FALSE)
    <3>1. Opens(w, o) /\ Alike(w, CloseFile(o.s, o.id))
      BY <2>2, FileOpens, OpenedAndClosed DEF DriveInv, Sound
    <3> HIDE DEF o
    <3>2. CASE ~ValidId(o.id)
      <4>1. Alike(w, o.s)
        BY <3>1, <3>2 DEF CloseFile
      <4>2. QueryEntry(o, class) = o.s
        BY <3>2 DEF QueryEntry
      <4>3. DriveInv(QueryEntry(o, class))
        BY <2>2, <4>1, <4>2, AlikeSound
      <4> QED  BY <4>3 DEF o
    <3>3. CASE ValidId(o.id)
      <4>1. DriveInv(CloseFile(o.s, o.id))
        BY <2>2, <3>1, AlikeSound
      <4>2. DriveInv(QueryEntry(o, class))
        <5>1. PICK r : QueryEntry(o, class) = [CloseFile(o.s, o.id) EXCEPT !.reply = r]
          BY <3>3, Zenon DEF QueryEntry
        <5> QED  BY <4>1, <5>1, ReplySound
      <4> QED  BY <4>2 DEF o
    <3> QED  BY <3>2, <3>3
  <2>3. \/ \E e, r : QueryNext(u, id, class, left) = [SetDirStream(u, id, e) EXCEPT !.reply = r]
        \/ \E e, path : QueryNext(u, id, class, left)
                          = QueryEntry(Open(SetDirStream(u, id, e), path, "read", "OPEN", FALSE), class)
    BY Zenon DEF QueryNext
  <2>4. \A e, r : DriveInv([SetDirStream(u, id, e) EXCEPT !.reply = r])
    BY <2>1, ReplySound
  <2>5. \A e, path :
           DriveInv(QueryEntry(Open(SetDirStream(u, id, e), path, "read", "OPEN", FALSE), class))
    <3> TAKE e, path
    <3> DEFINE w == SetDirStream(u, id, e)
    <3>1. DriveInv(w) /\ Ready(w)
      BY <2>1
    <3> HIDE DEF w
    <3>2. DriveInv(QueryEntry(Open(w, path, "read", "OPEN", FALSE), class))
      BY <2>2, <3>1
    <3> QED  BY <3>2 DEF w
  <2>6. ASSUME NEW e, NEW r, QueryNext(u, id, class, left) = [SetDirStream(u, id, e) EXCEPT !.reply = r]
        PROVE  DriveInv(QueryNext(u, id, class, left))
    BY <2>4, <2>6, Zenon
  <2>7. ASSUME NEW e, NEW path, QueryNext(u, id, class, left)
                          = QueryEntry(Open(SetDirStream(u, id, e), path, "read", "OPEN", FALSE), class)
        PROVE  DriveInv(QueryNext(u, id, class, left))
    BY <2>5, <2>7, Zenon
  <2> QED  BY <2>3, <2>6, <2>7, Zenon
<1>2. \A x : DriveInv([s EXCEPT !.fs.files[id].pat = x]) /\ Ready([s EXCEPT !.fs.files[id].pat = x])
  BY SteadyReady, QuietSteps, QuietSound, QuietReady DEF DriveInv
<1>3. \/ \E r : ProcessQueryDirectory(s, id, class, initial, pat) = [s EXCEPT !.reply = r]
      \/ \E x : ProcessQueryDirectory(s, id, class, initial, pat)
                  = QueryWith([s EXCEPT !.fs.files[id].pat = x], id, class)
  BY DEF ProcessQueryDirectory
<1>4. ASSUME NEW u, DriveInv(u), Ready(u)  PROVE DriveInv(QueryWith(u, id, class))
  BY <1>1, <1>4 DEF QueryWith
<1>5. ASSUME NEW r, ProcessQueryDirectory(s, id, class, initial, pat) = [s EXCEPT !.reply = r]
      PROVE  DriveInv(ProcessQueryDirectory(s, id, class, initial, pat))
  BY <1>5, ReplySound
<1>6. ASSUME NEW x, ProcessQueryDirectory(s, id, class, initial, pat)
                    = QueryWith([s EXCEPT !.fs.files[id].pat = x], id, class)
      PROVE  DriveInv(ProcessQueryDirectory(s, id, class, initial, pat))
  BY <1>2, <1>4, <1>6
<1> QED  BY <1>3, <1>5, <1>6

(* The other requests of the server.                                       *)
LEMMA RequestSound ==
    ASSUME NEW s, DriveInv(s), Steady(s), NEW id
    PROVE  /\ \A off : DriveInv(ProcessRead(s, id, off))
           /\ \A off, v : DriveInv(ProcessWrite(s, id, off, v))
           /\ \A class : DriveInv(ProcessVolumeInfo(s, class)) /\ DriveInv(ProcessFileInfo(s, id, class))
           /\ DriveInv(SetDisposition(s, id))
           /\ \A len : DriveInv(SetLength(s, id, len))
           /\ \A fn : DriveInv(ProcessFixed(s, fn))
           /\ \A path : FreeSlots(s) # {} =>
                 \A none \in BOOLEAN : DriveInv(SetRename(s, id, path, none))
<1>0. Shape(s)
  BY DEF DriveInv
<1>1. \A t, r : Quiet(s, t) => DriveInv([t EXCEPT !.reply = r])
  BY QuietSound, ReplySound
<1>2. \A off : DriveInv(ProcessRead(s, id, off))
  BY ReplySound DEF ProcessRead
<1>3. \A off, v : DriveInv(ProcessWrite(s, id, off, v))
  BY <1>0, <1>1, QuietSteps, ReplySound DEF ProcessWrite
<1>4. \A class : DriveInv(ProcessVolumeInfo(s, class)) /\ DriveInv(ProcessFileInfo(s, id, class))
  BY ReplySound DEF ProcessVolumeInfo, ProcessFileInfo
<1>5. DriveInv(SetDisposition(s, id))
  BY <1>0, <1>1, QuietSteps, ReplySound DEF SetDisposition
<1>6. \A len : DriveInv(SetLength(s, id, len))
  BY <1>0, <1>1, QuietSteps, ReplySound DEF SetLength
<1>7. \A fn : DriveInv(ProcessFixed(s, fn))
  BY ReplySound DEF ProcessFixed
<1>8. ASSUME NEW path, NEW none \in BOOLEAN, FreeSlots(s) # {}  PROVE DriveInv(SetRename(s, id, path, none))
  <2>1. \A p, r : DriveInv([DownloadToUser(s, p, none) EXCEPT !.reply = r])
    BY <1>8, DownloadSound, ReplySound
  <2>2. \A r : DriveInv([RenameFile(s, id, path).s EXCEPT !.reply = r])
    BY <1>0, <1>1, QuietSteps
  <2> QED  BY <2>1, <2>2, ReplySound DEF SetRename
<1> QED  BY <1>2, <1>3, <1>4, <1>5, <1>6, <1>7, <1>8

(* guac_rdp_download_get_handler                                           *)
LEMMA GetSound ==
    ASSUME NEW s, DriveInv(s), Steady(s), FreeSlots(s) # {}, NEW path, NEW none \in BOOLEAN
    PROVE  DriveInv(GetHandler(s, path, none))
<1> DEFINE o == Open(s, path, "read", "OPEN", FALSE)
           f == o.s.fs.files[o.id]
           g == GetHandler(s, path, none)
<1>1. Opens(s, o) /\ g = Got(s, o, none)
  BY SteadyReady, FileOpens DEF DriveInv, Sound, GetHandler
<1> HIDE DEF o, g
<1>2. CASE NotOpened(s, o)
  <2>1. g = o.s
    BY <1>1, <1>2 DEF Got, NotOpened, ValidId
  <2> QED  BY <1>2, <2>1, AlikeSound DEF NotOpened, g
<1>3. CASE Fresh(s, o)
  <2>1. g = GotFile(s, o, f, none)
    BY <1>1, <1>3 DEF Got, Fresh, ValidId
  <2> HIDE DEF f
  <2>2. CASE (f.isdir \/ ~DisableDownload) /\ ~none
    <3> DEFINE v == [NoStream EXCEPT !.kind = IF f.isdir THEN "ls" ELSE "down", !.id = o.id,
                                     !.src = IF f.isdir THEN 0 ELSE f.ino]
    <3>1. g = [o.s EXCEPT !.strm[NextSlot(o.s)] = v]
      BY <2>1, <2>2 DEF GotFile
    <3>2. StreamFields \subseteq DOMAIN v /\ v.kind \in Active /\ v.id = o.id
      BY DEF NoStream, StreamFields, Active
    <3> HIDE DEF v
    <3> QED  BY <1>3, <3>1, <3>2, StreamBegins DEF g
  <2>3. CASE (f.isdir \/ ~DisableDownload) /\ none
    <3>1. g = Faulted(s, "null_stream")
      BY <2>1, <2>3, Zenon DEF GotFile
    <3>2. Sound(s)
      BY DEF DriveInv, Sound
    <3>3. Alike(s, g)
      BY <3>1, <3>2, NullStream
    <3>4. DriveInv(g)
      BY <3>3, AlikeSound
    <3> QED  BY <3>4 DEF g
  <2>4. CASE ~(f.isdir \/ ~DisableDownload)
    <3> DEFINE t == [o.s EXCEPT !.leaked = @ \cup {o.id}]
    <3>1. g = t
      BY <2>1, <2>4, Zenon DEF GotFile
    <3>2. /\ Shape(t) /\ SameTable(o.s, t) /\ t.open = o.s.open /\ t.srv = o.s.srv
          /\ t.leaked = o.s.leaked \cup {o.id} /\ t.strm = o.s.strm
      BY <1>3 DEF Fresh, Sound, Shape, StreamFields, SameTable, SameCount
    <3> HIDE DEF t
    <3>3. Sound(t)
      BY <1>3, <3>2, TableSame DEF Fresh, Sound
    <3>4. /\ t.srv = s.srv /\ t.leaked = s.leaked \cup {o.id}
          /\ \A k \in 1 .. MaxStreams : t.strm[k].kind = s.strm[k].kind /\ t.strm[k].id = s.strm[k].id
      BY <1>3, <3>2 DEF Fresh, SameHolders
    <3> QED  BY <1>3, <3>1, <3>2, <3>3, <3>4, ToNobody DEF g
  <2> QED  BY <2>2, <2>3, <2>4
<1> QED  BY <1>1, <1>2, <1>3 DEF Opens

(* guac_rdp_upload_file_handler and guac_rdp_upload_put_handler            *)
LEMMA UploadSound ==
    ASSUME NEW s, DriveInv(s), Steady(s), FreeSlots(s) # {}, NEW path
    PROVE  DriveInv(BeginUpload(s, path))
<1> DEFINE o == Open(s, path, "write", "OVERWRITE_IF", FALSE)
<1>1. Opens(s, o) /\ BeginUpload(s, path) = IF DisableUpload THEN s ELSE UploadTo(o)
  BY SteadyReady, FileOpens DEF DriveInv, Sound, BeginUpload
<1> HIDE DEF o
<1>2. CASE NotOpened(s, o)
  <2>1. UploadTo(o) = o.s
    BY <1>2 DEF UploadTo, NotOpened, ValidId
  <2> QED  BY <1>1, <1>2, <2>1, AlikeSound DEF NotOpened
<1>3. CASE Fresh(s, o)
  <2> DEFINE v == [NoStream EXCEPT !.kind = "up", !.id = o.id]
  <2>1. UploadTo(o) = [o.s EXCEPT !.strm[NextSlot(o.s)] = v]
    BY <1>3 DEF UploadTo, Fresh, ValidId
  <2>2. StreamFields \subseteq DOMAIN v /\ v.kind \in Active /\ v.id = o.id
    BY DEF NoStream, StreamFields, Active
  <2> HIDE DEF v
  <2>3. DriveInv(UploadTo(o))
    BY <1>3, <2>1, <2>2, StreamBegins
  <2> QED  BY <1>1, <2>3
<1> QED  BY <1>1, <1>2, <1>3 DEF Opens

(* A stream ends: a state in which only its kind and fields that do not    *)
(* matter differ from w.                                                   *)
EndsStream(w, t, n) ==
    /\ Shape(t) /\ SameTable(w, t) /\ t.srv = w.srv
    /\ t.strm[n].kind \notin Active
    /\ \A k \in (1 .. MaxStreams) \ {n} : t.strm[k] = w.strm[k]

(* A stream that ends closes its file.                                     *)
LEMMA StreamCloses ==
    ASSUME NEW s, DriveInv(s), s.fault = "none", NEW n \in HeldBy(s), NEW t,
           EndsStream(CloseFile(s, s.strm[n].id), t, n),
           t.leaked = CloseFile(s, s.strm[n].id).leaked
    PROVE  DriveInv(t)
<1> DEFINE w == CloseFile(s, s.strm[n].id)
<1>1. Closes(s, w, s.strm[n].id)
  BY FileClosed DEF DriveInv, Sound, Holders
<1> HIDE DEF w
<1>2. EndsStream(w, t, n) /\ t.leaked = w.leaked
  BY DEF w
<1>3. Sound(t)
  BY <1>1, <1>2, TableSame DEF EndsStream, Closes, Sound
<1>4. t.open = s.open \ {s.strm[n].id} /\ t.leaked = s.leaked /\ t.srv = s.srv /\ t.strm[n].kind \notin Active
  BY <1>1, <1>2 DEF EndsStream, Closes, SameTable, SameHolders
<1>5. \A k \in (1 .. MaxStreams) \ {n} : t.strm[k].kind = s.strm[k].kind /\ t.strm[k].id = s.strm[k].id
  BY <1>1, <1>2 DEF EndsStream, Closes, SameHolders
<1> QED  BY <1>3, <1>4, <1>5, FromStream

(* A stream that ends leaves its file open.                                *)
LEMMA StreamLeaves ==
    ASSUME NEW s, DriveInv(s), NEW n \in HeldBy(s), NEW t,
           EndsStream(s, t, n), t.leaked = s.leaked \cup {s.strm[n].id}
    PROVE  DriveInv(t)
<1>1. Sound(t)
  BY TableSame DEF EndsStream, DriveInv, Sound
<1>2. \A k \in (1 .. MaxStreams) \ {n} : t.strm[k].kind = s.strm[k].kind /\ t.strm[k].id = s.strm[k].id
  BY DEF EndsStream
<1> QED  BY <1>1, <1>2, FromStream DEF EndsStream, SameTable

(* guac_rdp_upload_blob_handler and guac_rdp_upload_end_handler            *)
LEMMA UploadStreamSound ==
    ASSUME NEW s, DriveInv(s), s.fault = "none", NEW k \in HeldBy(s)
    PROVE  (\A v : DriveInv(UploadBlob(s, k, v))) /\ DriveInv(UploadEnd(s, k))
<1>0. k \in 1 .. MaxStreams
  BY DEF HeldBy
<1>1. ASSUME NEW v  PROVE DriveInv(UploadBlob(s, k, v))
  <2> DEFINE w == WriteFile(s, s.strm[k].id, s.strm[k].off, v)
             t == [w EXCEPT !.strm[k].off = @ + 1]
  <2>1. Quiet(s, w)
    BY QuietSteps DEF DriveInv
  <2> HIDE DEF w
  <2>2. Quiet(w, t)
    BY <1>0, <2>1 DEF Quiet, Shape, StreamFields, SameTable, SameCount, SameHolders
  <2> HIDE DEF t
  <2>3. DriveInv(t)
    BY <2>1, <2>2, QuietSound
  <2>4. UploadBlob(s, k, v) = t
    BY Zenon DEF UploadBlob, t, w
  <2> QED  BY <2>3, <2>4
<1>2. DriveInv(UploadEnd(s, k))
  <2> DEFINE w == CloseFile(s, s.strm[k].id)
             t == [w EXCEPT !.strm[k].kind = "ended"]
  <2>1. Shape(w)
    BY FileClosed DEF DriveInv, Sound, Holders, Closes
  <2> HIDE DEF w
  <2>2. EndsStream(w, t, k) /\ t.leaked = w.leaked
    BY <1>0, <2>1 DEF EndsStream, Shape, StreamFields, SameTable, SameCount, Active
  <2> HIDE DEF t
  <2>3. DriveInv(t)
    BY <2>2, StreamCloses DEF w
  <2> QED  BY <2>3 DEF UploadEnd, t, w
<1> QED  BY <1>1, <1>2

(* guac_rdp_download_ack_handler                                           *)
LEMMA DownloadAckSound ==
    ASSUME NEW s, DriveInv(s), NEW k \in HeldBy(s), NEW ok
    PROVE  DriveInv(DownloadAck(s, k, ok))
<1>0. k \in 1 .. MaxStreams /\ Shape(s)
  BY DEF HeldBy, DriveInv
<1>1. ASSUME NEW kind \in {"refused", "ended"}
      PROVE  DriveInv([[s EXCEPT !.leaked = @ \cup {s.strm[k].id}] EXCEPT !.strm[k].kind = kind])
  <2> DEFINE w == [s EXCEPT !.leaked = @ \cup {s.strm[k].id}]
             t == [w EXCEPT !.strm[k].kind = kind]
  <2>1. Shape(w) /\ SameTable(s, w) /\ w.srv = s.srv /\ w.strm = s.strm /\ w.leaked = s.leaked \cup {s.strm[k].id}
    BY <1>0 DEF Shape, StreamFields, SameTable, SameCount
  <2> HIDE DEF w
  <2>2. EndsStream(w, t, k) /\ t.leaked = w.leaked
    BY <1>0, <2>1 DEF EndsStream, Shape, StreamFields, SameTable, SameCount, Active
  <2> HIDE DEF t
  <2>3. EndsStream(s, t, k)
    BY <2>1, <2>2 DEF EndsStream, SameTable, SameCount
  <2>4. DriveInv(t)
    BY <2>1, <2>2, <2>3, StreamLeaves
  <2> QED  BY <2>4 DEF t, w
<1>2. ASSUME NEW x  PROVE DriveInv([s EXCEPT !.strm[k] = [s.strm[k] EXCEPT !.off = @ + 1, !.got = @ \o x]])
  <2> DEFINE t == [s EXCEPT !.strm[k] = [s.strm[k] EXCEPT !.off = @ + 1, !.got = @ \o x]]
  <2>1. Quiet(s, t)
    BY <1>0 DEF Quiet, Shape, StreamFields, SameTable, SameCount, SameHolders
  <2> HIDE DEF t
  <2>2. DriveInv(t)
    BY <2>1, QuietSound
  <2> QED  BY <2>2, Zenon DEF t
<1> QED  BY <1>1, <1>2 DEF DownloadAck

(* guac_rdp_ls_ack_handler                                                 *)
LEMMA LsNamesSound ==
    ASSUME NEW s, DriveInv(s), s.fault = "none", NEW k \in HeldBy(s)
    PROVE  /\ DriveInv([CloseFile(s, s.strm[k].id) EXCEPT !.strm[k].kind = "refused"])
           /\ \A left, listed : DriveInv(LsNames(s, k, left, listed))
<1> DEFINE w == CloseFile(s, s.strm[k].id)
<1>0. k \in 1 .. MaxStreams /\ Shape(s)
  BY DEF HeldBy, DriveInv
<1>1. Shape(w)
  BY FileClosed DEF DriveInv, Sound, Holders, Closes
<1> HIDE DEF w
<1>2. DriveInv([w EXCEPT !.strm[k].kind = "refused"])
  <2> DEFINE t == [w EXCEPT !.strm[k].kind = "refused"]
  <2>1. EndsStream(w, t, k) /\ t.leaked = w.leaked
    BY <1>0, <1>1 DEF EndsStream, Shape, StreamFields, SameTable, SameCount, Active
  <2> HIDE DEF t
  <2>2. DriveInv(t)
    BY <2>1, StreamCloses DEF w
  <2> QED  BY <2>2 DEF t
<1>3. ASSUME NEW x  PROVE DriveInv([w EXCEPT !.strm[k].listed = @ \cup x, !.strm[k].kind = "ended"])
  <2> DEFINE t == [w EXCEPT !.strm[k].listed = @ \cup x, !.strm[k].kind = "ended"]
  <2>1. EndsStream(w, t, k) /\ t.leaked = w.leaked
    BY <1>0, <1>1 DEF EndsStream, Shape, StreamFields, SameTable, SameCount, Active
  <2> HIDE DEF t
  <2>2. DriveInv(t)
    BY <2>1, StreamCloses DEF w
  <2> QED  BY <2>2 DEF t
<1>4. ASSUME NEW e, NEW x
      PROVE  DriveInv([SetDirStream(s, s.strm[k].id, e) EXCEPT !.strm[k].listed = @ \cup x, !.strm[k].json = 1])
  <2> DEFINE u == SetDirStream(s, s.strm[k].id, e)
             t == [u EXCEPT !.strm[k].listed = @ \cup x, !.strm[k].json = 1]
  <2>1. Quiet(s, u)
    BY <1>0, QuietSteps
  <2> HIDE DEF u
  <2>2. Quiet(u, t)
    BY <1>0, <2>1 DEF Quiet, Shape, StreamFields, SameTable, SameCount, SameHolders
  <2> HIDE DEF t
  <2>3. DriveInv(t)
    BY <2>1, <2>2, QuietSound
  <2> QED  BY <2>3 DEF t, u
<1>5. ASSUME NEW left, NEW listed  PROVE DriveInv(LsNames(s, k, left, listed))
  <2> DEFINE Ended(x) == [w EXCEPT !.strm[k].listed = @ \cup x, !.strm[k].kind = "ended"]
             Flushed(e, x) ==
                [SetDirStream(s, s.strm[k].id, e) EXCEPT !.strm[k].listed = @ \cup x, !.strm[k].json = 1]
  <2>1. \/ \E x : LsNames(s, k, left, listed) = Ended(x)
        \/ \E e, x : LsNames(s, k, left, listed) = Flushed(e, x)
    BY Zenon DEF LsNames, w
  <2>2. \A x : DriveInv(Ended(x))
    BY <1>3
  <2>3. \A e, x : DriveInv(Flushed(e, x))
    BY <1>4
  <2> HIDE DEF Ended, Flushed
  <2> QED  BY <2>1, <2>2, <2>3, Zenon
<1> QED  BY <1>2, <1>5 DEF w

(* The names of a directory are opened and closed again.                   *)
LEMMA LsOpenedSound ==
    ASSUME NEW s, Sound(s), Ready(s), NEW k
    PROVE  LET u == LsOpened(s, LsListed(s, k)) IN
           Alike(s, u) /\ (u.fault = "none" \/ u = Faulted(s, "overrun"))
<1> DEFINE listed == LsListed(s, k)  u == LsOpened(s, listed)
<1>1. listed # {} => OpenFiles(s) < MaxFiles
  <2> SUFFICES ASSUME NEW i \in listed  PROVE OpenFiles(s) < MaxFiles
    OBVIOUS
  <2>1. PICK path : Open(s, path, "read", "OPEN", FALSE).id >= 0
    BY DEF LsListed
  <2>2. CASE OpenFiles(s) >= MaxFiles
    <3>1. OpenRefused(s, path, "OPEN") = -1
      BY <2>2 DEF OpenRefused, ENFILE
    <3>2. OpenRefused(s, path, "OPEN") # 0
      BY <3>1
    <3> DEFINE o == Open(s, path, "read", "OPEN", FALSE)
               c == OpenRefused(s, path, "OPEN")
    <3>3. o = [s |-> s, id |-> c]
      BY <3>2, Zenon DEF Open
    <3>4. o.id >= 0
      BY <2>1
    <3>5. c = -1
      BY <3>1
    <3> HIDE DEF o, c
    <3>6. o.id = c
      BY <3>3
    <3> QED  BY <3>4, <3>5, <3>6
  <2>3. OpenFiles(s) \in Int /\ MaxFiles \in Int
    BY CountBounded
  <2> QED  BY <2>2, <2>3
<1> HIDE DEF listed
<1>2. CASE listed = {}
  <2>1. u = s
    BY <1>2 DEF LsOpened
  <2> QED  BY <2>1, QuietSelf, QuietAlike DEF Sound, Ready, listed
<1>3. CASE listed # {} /\ TableFull(s)
  <2>1. u = Faulted(s, "overrun")
    BY <1>3 DEF LsOpened
  <2> QED  BY <1>1, <1>3, <2>1, Overruns DEF listed
<1>4. CASE listed # {} /\ ~TableFull(s)
  <2>1. u = [s EXCEPT !.fs.inc = @ + 1, !.fs.dec = @ + 1]
    BY <1>4 DEF LsOpened
  <2> HIDE DEF u
  <2>2. /\ Shape(u) /\ SameHolders(s, u) /\ u.fs.next = s.fs.next /\ u.fs.free = s.fs.free /\ u.open = s.open
        /\ u.fs.inc = s.fs.inc + 1 /\ u.fs.dec = s.fs.dec + 1
        /\ u.fs.n = s.fs.n /\ u.fs.lost = s.fs.lost /\ u.due = s.due /\ u.fault = s.fault
    BY <2>1 DEF Sound, Shape, StreamFields, SameHolders
  <2>3. Balanced(u)
    <3> DEFINE c == Cardinality(s.open)
    <3>1. c \in Nat /\ Cardinality(u.open) = c
      BY <2>2, CountBounded
    <3>2. s.fs.inc \in Int /\ s.fs.dec \in Int
      BY DEF Sound, Table, Balanced
    <3> HIDE DEF c
    <3>3. c - c = (u.fs.inc - s.fs.inc) - (u.fs.dec - s.fs.dec) /\ u.fs.inc \in Int /\ u.fs.dec \in Int
      BY <2>2, <3>1, <3>2
    <3> QED  BY <2>2, <3>1, <3>3, CountMoves DEF Sound, Table, Ready, c
  <2>4. Table(u)
    BY <2>2, <2>3 DEF Sound, Table, Pool, Found
  <2> QED  BY <2>2, <2>4 DEF Alike, Sound, Ready, u, listed
<1> QED  BY <1>2, <1>3, <1>4

LEMMA LsAckSound ==
    ASSUME NEW s, DriveInv(s), Steady(s), NEW k \in HeldBy(s), NEW ok
    PROVE  DriveInv(LsAck(s, k, ok))
<1> DEFINE listed == LsListed(s, k)  u == LsOpened(s, listed)
<1>1. CASE ~ok
  BY <1>1, LsNamesSound DEF LsAck, Steady
<1>2. CASE ok
  <2>1. LsAck(s, k, ok) = LsNext(u, k, listed)
    BY <1>2 DEF LsAck
  <2>2. Alike(s, u)
    BY LsOpenedSound, SteadyReady DEF DriveInv, Sound
  <2> HIDE DEF u, listed
  <2>3. DriveInv(u) /\ k \in HeldBy(u)
    BY <2>2, AlikeSound DEF Alike, SameHolders, HeldBy
  <2> QED  BY <2>1, <2>3, LsNamesSound DEF LsNext
<1> QED  BY <1>1, <1>2

(* The invariant of the drive: between two handlers none has left changes  *)
(* of the count that are not noted as due.                                 *)
AtRest == drive.fs.inc = 0 /\ drive.fs.dec = 0
DriveIInv == Shape(drive) /\ Pool(drive) /\ Balanced(drive) /\ Holders(drive) /\ AtRest

LEMMA HandlerBegins ==
    ASSUME DriveIInv
    PROVE  DriveInv(drive) /\ (drive.fault = "none" => Steady(drive))
BY DEF DriveIInv, AtRest, DriveInv, Table, Found, Steady

(* The drive before the first request.                                     *)
LEMMA DriveInitially == DriveInit => DriveIInv
<1> SUFFICES ASSUME NEW found, drive = InitDrive(found)  PROVE DriveIInv
  BY DEF DriveInit
<1>1. Shape(drive)
  BY DEF InitDrive, Shape, StreamFields, NewFs, NoStream
<1>2. /\ drive.fs.next = 0 /\ drive.fs.free = <<>> /\ drive.fs.n = 0 /\ drive.fs.inc = 0 /\ drive.fs.dec = 0
      /\ drive.fs.lost = 0 /\ drive.fault = "none" /\ drive.due = [t \in Threads |-> NoneDue]
      /\ drive.open = {} /\ drive.srv = {} /\ drive.leaked = {}
  BY DEF InitDrive, NewFs
<1>3. HeldBy(drive) = {}
  BY DEF InitDrive, HeldBy, NoStream, Active
<1>4. Holders(drive)
  BY <1>2, <1>3 DEF Holders
<1>5. Pool(drive)
  <2>1. <<>> \in Seq(Int) /\ IsInjective(<<>>) /\ ToSet(<<>>) = {}
    BY DEF IsInjective, ToSet
  <2> QED  BY <1>2, <2>1, DriveConsts DEF Pool
<1>6. Balanced(drive)
  <2>1. Cardinality({}) = 0
    BY FS_EmptySet
  <2>2. drive.due \in [Threads -> [inc : Int, dec : Int, seen : {<<>>} \cup {<<x>> : x \in Int}]]
    BY <1>2 DEF NoneDue
  <2>3. OpenFiles(drive) = 0 /\ Uncounted(drive) = 0
    BY <1>2 DEF OpenFiles, Uncounted, NoneDue, Threads
  <2> QED  BY <1>2, <2>1, <2>2, <2>3 DEF Balanced
<1> QED  BY <1>1, <1>2, <1>4, <1>5, <1>6 DEF DriveIInv, AtRest

(* What is due moves with what one thread has due.                         *)
LEMMA UncountedMoves ==
    ASSUME NEW s, NEW u, NEW t \in Threads, NEW x \in Int,
           \A r \in Threads : s.due[r].inc \in Int /\ s.due[r].dec \in Int,
           u.due[t].inc \in Int, u.due[t].dec \in Int,
           u.due[t].inc - u.due[t].dec = s.due[t].inc - s.due[t].dec + x,
           \A r \in Threads \ {t} : u.due[r] = s.due[r]
    PROVE  Uncounted(u) = Uncounted(s) + x
<1> DEFINE a == s.due["rdp"].inc  b == s.due["rdp"].dec  c == s.due["owner"].inc  d == s.due["owner"].dec
           e == u.due["rdp"].inc  f == u.due["rdp"].dec  g == u.due["owner"].inc  h == u.due["owner"].dec
<1>1. Uncounted(s) = a - b + c - d /\ Uncounted(u) = e - f + g - h
  BY DEF Uncounted
<1>2. a \in Int /\ b \in Int /\ c \in Int /\ d \in Int
  BY DEF Threads
<1>3. CASE t = "rdp"
  <2>1. e \in Int /\ f \in Int /\ e - f = a - b + x /\ g = c /\ h = d
    BY <1>3 DEF Threads
  <2> HIDE DEF a, b, c, d, e, f, g, h
  <2> QED  BY <1>1, <1>2, <2>1
<1>4. CASE t = "owner"
  <2>1. g \in Int /\ h \in Int /\ g - h = c - d + x /\ e = a /\ f = b
    BY <1>4 DEF Threads
  <2> HIDE DEF a, b, c, d, e, f, g, h
  <2> QED  BY <1>1, <1>2, <2>1
<1> QED  BY <1>3, <1>4 DEF Threads

(* What a handler leaves behind when it is through.                        *)
LEMMA HandlerEnds ==
    ASSUME DriveIInv, NEW s, DriveInv(s), NEW t \in Threads, drive.due[t] = NoneDue
    PROVE  LET u == Left(t, s) IN
           /\ Shape(u) /\ Pool(u) /\ Balanced(u) /\ Holders(u) /\ u.fs.inc = 0 /\ u.fs.dec = 0
           /\ u.strm = s.strm /\ u.fs.files = s.fs.files /\ u.open = s.open /\ u.names = s.names
           /\ u.inode = s.inode /\ u.handed = s.handed
<1> DEFINE u == Left(t, s)  d == [inc |-> s.fs.inc, dec |-> s.fs.dec, seen |-> <<>>]
<1>1. /\ Shape(u) /\ u.fs.next = s.fs.next /\ u.fs.free = s.fs.free /\ u.open = s.open /\ u.fault = s.fault
      /\ u.srv = s.srv /\ u.leaked = s.leaked /\ u.strm = s.strm /\ u.fs.files = s.fs.files
      /\ u.names = s.names /\ u.inode = s.inode /\ u.handed = s.handed
      /\ u.fs.n = s.fs.n /\ u.fs.lost = s.fs.lost /\ u.fs.inc = 0 /\ u.fs.dec = 0
      /\ u.due = [s.due EXCEPT ![t] = d]
  BY DEF Left, DriveInv, Shape, StreamFields
<1> HIDE DEF u
<1>2. s.due[t].inc = 0 /\ s.due[t].dec = 0
  BY DEF DriveInv, Table, Found, NoneDue
<1>3. /\ s.fs.n \in Int /\ s.fs.inc \in Int /\ s.fs.dec \in Int /\ s.fs.lost \in Int
      /\ s.due \in [Threads -> [inc : Int, dec : Int, seen : {<<>>} \cup {<<x>> : x \in Int}]]
  BY DEF DriveInv, Table, Balanced
<1>4. u.due \in [Threads -> [inc : Int, dec : Int, seen : {<<>>} \cup {<<x>> : x \in Int}]]
  BY <1>1, <1>3
<1>5. /\ u.due[t].inc = s.fs.inc /\ u.due[t].dec = s.fs.dec /\ u.due[t].inc \in Int /\ u.due[t].dec \in Int
      /\ \A r \in Threads \ {t} : u.due[r] = s.due[r]
  BY <1>1, <1>3
<1>7. Uncounted(s) \in Int /\ OpenFiles(s) \in Int
  BY CountsInt DEF DriveInv, Table
<1>6. Uncounted(u) = Uncounted(s) + s.fs.inc - s.fs.dec
  <2>1. \A r \in Threads : s.due[r].inc \in Int /\ s.due[r].dec \in Int
    BY CountsInt DEF DriveInv, Table
  <2>2. s.due[t].inc - s.due[t].dec = 0 /\ u.due[t].inc - u.due[t].dec = s.fs.inc - s.fs.dec
    BY <1>2, <1>3, <1>5
  <2> DEFINE x == s.fs.inc - s.fs.dec
  <2>3. x \in Int /\ u.due[t].inc - u.due[t].dec = s.due[t].inc - s.due[t].dec + x
    BY <1>2, <1>3, <2>2
  <2>4. Uncounted(u) = Uncounted(s) + x
    <3> HIDE DEF x
    <3> QED  BY <1>5, <2>1, <2>3, UncountedMoves
  <2> QED  BY <1>3, <1>7, <2>4
<1>8. OpenFiles(u) + Uncounted(u) + u.fs.lost = OpenFiles(s) + Uncounted(s) + s.fs.lost
  <2>1. OpenFiles(u) = s.fs.n /\ OpenFiles(s) = s.fs.n + s.fs.inc - s.fs.dec
    BY <1>1, <1>3 DEF OpenFiles
  <2> QED  BY <1>1, <1>3, <1>6, <1>7, <2>1
<1>9. Balanced(u)
  BY <1>1, <1>3, <1>4, <1>8 DEF DriveInv, Table, Balanced
<1>10. HeldBy(u) = HeldBy(s)
  BY <1>1 DEF HeldBy
<1>11. Holders(u)
  BY <1>1, <1>10 DEF DriveInv, Holders
<1>12. Pool(u)
  BY <1>1 DEF DriveInv, Table, Pool
<1> QED  BY <1>1, <1>9, <1>11, <1>12 DEF u

LEMMA HandlerStep ==
    ASSUME DriveIInv, NEW s, DriveInv(s), NEW t \in Threads, Ran(t, s)
    PROVE  DriveIInv'
BY HandlerEnds DEF Ran, DriveIInv, AtRest

(* open_files is read and written.                                         *)
LEMMA CountStep ==
    ASSUME DriveIInv, CountNext
    PROVE  /\ DriveIInv'
           /\ drive'.strm = drive.strm /\ drive'.fs.files = drive.fs.files /\ drive'.open = drive.open
           /\ drive'.names = drive.names /\ drive'.inode = drive.inode /\ drive'.handed = drive.handed
<1> DEFINE Due == [inc : Int, dec : Int, seen : {<<>>} \cup {<<x>> : x \in Int}]
<1>0. /\ Shape(drive) /\ drive.due \in [Threads -> Due] /\ drive.fs.n \in Int /\ drive.fs.lost \in Int
      /\ drive.fs.inc = 0 /\ drive.fs.dec = 0
  BY DEF DriveIInv, Balanced, AtRest
<1> DEFINE Moved(d, n, l) ==
             /\ Shape(drive') /\ drive'.fs.next = drive.fs.next /\ drive'.fs.free = drive.fs.free
             /\ drive'.open = drive.open /\ drive'.fault = drive.fault /\ drive'.srv = drive.srv
             /\ drive'.leaked = drive.leaked /\ drive'.strm = drive.strm /\ drive'.fs.files = drive.fs.files
             /\ drive'.names = drive.names /\ drive'.inode = drive.inode /\ drive'.handed = drive.handed
             /\ drive'.fs.n = n /\ drive'.fs.lost = l /\ drive'.fs.inc = 0 /\ drive'.fs.dec = 0 /\ drive'.due = d
<1>1. ASSUME NEW d \in [Threads -> Due], NEW n \in Int, NEW l \in Int, drive.fault = "none", Moved(d, n, l),
             n + (d["rdp"].inc - d["rdp"].dec + d["owner"].inc - d["owner"].dec) + l
                = drive.fs.n + Uncounted(drive) + drive.fs.lost
      PROVE  /\ DriveIInv'
             /\ drive'.strm = drive.strm /\ drive'.fs.files = drive.fs.files /\ drive'.open = drive.open
             /\ drive'.names = drive.names /\ drive'.inode = drive.inode /\ drive'.handed = drive.handed
  <2>1. Moved(d, n, l)
    BY <1>1
  <2>2. OpenFiles(drive') = n /\ OpenFiles(drive) = drive.fs.n
    BY <1>0, <1>1, <2>1 DEF OpenFiles
  <2>3. OpenFiles(drive') + Uncounted(drive') + drive'.fs.lost = Cardinality(drive'.open)
    BY <1>1, <2>1, <2>2 DEF Uncounted, DriveIInv, Balanced
  <2>4. Balanced(drive')
    BY <1>1, <2>1, <2>3 DEF Balanced
  <2>5. Pool(drive')
    BY <2>1 DEF DriveIInv, Pool
  <2>6. HeldBy(drive') = HeldBy(drive)
    BY <2>1 DEF HeldBy
  <2>7. Holders(drive')
    BY <2>1, <2>6 DEF DriveIInv, Holders
  <2> QED  BY <2>1, <2>4, <2>5, <2>7 DEF DriveIInv, AtRest
<1>2. PICK t \in Threads : Look(t) \/ Count(t)
  BY DEF CountNext
<1>3. CASE Look(t)
  <2> DEFINE d == [drive.due EXCEPT ![t].seen = <<drive.fs.n>>]
  <2>2. d \in [Threads -> Due]
    BY <1>0
  <2>1. Moved(d, drive.fs.n, drive.fs.lost) /\ drive.fault = "none"
    <3>1. drive' = [drive EXCEPT !.due = d] /\ drive.fault = "none"
      BY <1>3 DEF Look, Shape
    <3> HIDE DEF d
    <3> QED  BY <1>0, <2>2, <3>1 DEF Shape, StreamFields
  <2>3. \A r \in Threads : d[r].inc = drive.due[r].inc /\ d[r].dec = drive.due[r].dec
    BY <1>0
  <2> HIDE DEF d
  <2>4. d["rdp"].inc - d["rdp"].dec + d["owner"].inc - d["owner"].dec = Uncounted(drive)
    BY <2>3 DEF Uncounted, Threads
  <2> QED  BY <1>0, <1>1, <2>1, <2>2, <2>4
<1>4. CASE Count(t)
  <2> DEFINE due == drive.due[t]
             d == [drive.due EXCEPT ![t] = Updated(due)]
             h == Head(due.seen)
             step == IF due.inc > 0 THEN 1 ELSE -1
             n == h + step
             l == drive.fs.lost + (drive.fs.n - h)
  <2>0. due \in Due /\ due.seen # <<>> /\ drive.fault = "none"
    BY <1>0, <1>4 DEF Count
  <2>1. h \in Int
    BY <2>0
  <2>b. drive' = [drive EXCEPT !.due = d, !.fs.n = n, !.fs.lost = l]
    BY <1>0, <1>4 DEF Count, Shape
  <2>a. step \in Int
    OBVIOUS
  <2>6. n \in Int /\ l \in Int /\ n + l = drive.fs.n + drive.fs.lost + step
    <3> DEFINE c == drive.fs.n  m == drive.fs.lost
    <3>1. c \in Int /\ m \in Int /\ n = h + step /\ l = m + (c - h)
      BY <1>0
    <3> HIDE DEF h, step, n, l, c, m
    <3>2. n \in Int /\ l \in Int /\ n + l = c + m + step
      BY <2>1, <2>a, <3>1
    <3> QED  BY <3>2 DEF c, m
  <2> HIDE DEF h, n, l
  <2>3. /\ Updated(due) \in Due
        /\ Updated(due).inc - Updated(due).dec = due.inc - due.dec - step
    <3> DEFINE a == due.inc  b == due.dec
    <3>1. a \in Int /\ b \in Int /\ due = [inc |-> a, dec |-> b, seen |-> due.seen]
      BY <2>0
    <3> HIDE DEF due
    <3>2. CASE a > 0
      <4>1. Updated(due) = [inc |-> a - 1, dec |-> b, seen |-> <<>>]
        BY <3>1, <3>2 DEF Updated
      <4>2. Updated(due).inc = a - 1 /\ Updated(due).dec = b
        BY <4>1
      <4>3. (a - 1) - b = a - b - step
        <5> HIDE DEF a, b
        <5> QED  BY <3>1, <3>2 DEF a
      <4>4. a - 1 \in Int
        BY <3>1
      <4> HIDE DEF a, b, step
      <4> QED  BY <3>1, <4>1, <4>2, <4>3, <4>4 DEF a, b
    <3>3. CASE ~(a > 0)
      <4>1. Updated(due) = [inc |-> a, dec |-> b - 1, seen |-> <<>>]
        BY <3>1, <3>3 DEF Updated
      <4>2. Updated(due).inc = a /\ Updated(due).dec = b - 1
        BY <4>1
      <4>3. a - (b - 1) = a - b - step
        <5> HIDE DEF a, b
        <5> QED  BY <3>1, <3>3 DEF a
      <4>4. b - 1 \in Int
        BY <3>1
      <4> HIDE DEF a, b, step
      <4> QED  BY <3>1, <4>1, <4>2, <4>3, <4>4 DEF a, b
    <3> QED  BY <3>2, <3>3
  <2> HIDE DEF step
  <2>4. d \in [Threads -> Due] /\ d[t] = Updated(due) /\ \A r \in Threads \ {t} : d[r] = drive.due[r]
    BY <1>0, <2>3
  <2>5. \A r \in Threads : drive.due[r].inc \in Int /\ drive.due[r].dec \in Int /\ d[r].inc \in Int /\ d[r].dec \in Int
    BY <1>0, <2>4
  <2>7. d["rdp"].inc - d["rdp"].dec + d["owner"].inc - d["owner"].dec = Uncounted(drive) - step
    <3> DEFINE u == [due |-> d]  x == 0 - step
    <3>1. u.due = d
      OBVIOUS
    <3>2. Uncounted(u) = d["rdp"].inc - d["rdp"].dec + d["owner"].inc - d["owner"].dec
      BY DEF Uncounted
    <3>3. x \in Int /\ d[t].inc - d[t].dec = drive.due[t].inc - drive.due[t].dec + x
      BY <2>a, <2>3, <2>4, <2>5
    <3> HIDE DEF d, u, x
    <3>4. Uncounted(u) = Uncounted(drive) + x
      BY <2>4, <2>5, <3>1, <3>3, UncountedMoves
    <3>5. Uncounted(drive) \in Int
      BY CountsInt DEF DriveIInv
    <3> QED  BY <2>a, <3>2, <3>4, <3>5 DEF x
  <2>8. Uncounted(drive) \in Int
    BY CountsInt DEF DriveIInv
  <2> DEFINE v == d["rdp"].inc - d["rdp"].dec + d["owner"].inc - d["owner"].dec
  <2>9. n + v + l = drive.fs.n + Uncounted(drive) + drive.fs.lost
    <3> DEFINE a == drive.fs.n  b == drive.fs.lost  c == Uncounted(drive)
    <3>1. v = c - step /\ a \in Int /\ b \in Int /\ c \in Int /\ n + l = a + b + step
      BY <1>0, <2>6, <2>7, <2>8
    <3> HIDE DEF a, b, c, v
    <3>2. n + v + l = a + c + b
      BY <2>a, <2>6, <3>1
    <3> QED  BY <3>2 DEF a, b, c, v
  <2> HIDE DEF d
  <2>2. Moved(d, n, l)
    BY <1>0, <2>4, <2>b DEF Shape, StreamFields
  <2> QED  BY <1>1, <2>0, <2>2, <2>4, <2>6, <2>9
<1> QED  BY <1>2, <1>3, <1>4

(* A request of the server.                                                *)
LEMMA ServerStepSound ==
    ASSUME DriveIInv, ServerNext
    PROVE  \E s : DriveInv(s) /\ Ran("rdp", s)
<1> USE DEF Requested, Called, Continued
<1>0. DriveInv(drive) /\ Steady(drive)
  <2>1. drive.fault = "none"
    BY DEF ServerNext, Handshake, Create, Read, Write, Close, QueryInfo, Delete, SetEndOfFile, OtherRequest,
           Rename, QueryDirectory, Ran
  <2> QED  BY <2>1, HandlerBegins
<1>1. CASE Handshake
  <2>1. PICK x : Ran("rdp", [drive EXCEPT !.chan.told = x])
    BY <1>1 DEF Handshake, ServerAnnounced, ServerCapable, UserLoggedOn
  <2>2. Quiet(drive, [drive EXCEPT !.chan.told = x])
    BY <1>0, QuietSteps DEF DriveInv
  <2> QED  BY <1>0, <2>1, <2>2, QuietSound
<1>2. CASE \E c \in Creates : Create(c[1], c[2], c[3], c[4])
  BY <1>0, <1>2, CreateRequestSound DEF Create
<1>3. CASE Read
  BY <1>0, <1>3, RequestSound DEF Read
<1>4. CASE \E v \in Contents : Write(v)
  BY <1>0, <1>4, RequestSound DEF Write
<1>5. CASE Close
  BY <1>0, <1>5, CloseRequestSound DEF Close, RoomForStream, ServerIds
<1>6. CASE QueryInfo
  BY <1>0, <1>6, RequestSound DEF QueryInfo
<1>7. CASE Delete
  BY <1>0, <1>7, RequestSound DEF Delete
<1>8. CASE SetEndOfFile
  BY <1>0, <1>8, RequestSound DEF SetEndOfFile
<1>9. CASE OtherRequest
  BY <1>0, <1>9, RequestSound DEF OtherRequest
<1>10. CASE \E p \in Renames : Rename(p)
  BY <1>0, <1>10, RequestSound DEF Rename, RoomForStream
<1>11. CASE \E pat \in Patterns : QueryDirectory(pat)
  BY <1>0, <1>11, QueryDirectorySound DEF QueryDirectory
<1> QED  BY <1>1, <1>2, <1>3, <1>4, <1>5, <1>6, <1>7, <1>8, <1>9, <1>10, <1>11 DEF ServerNext

(* An instruction of the owner, and its end.                               *)
LEMMA OwnerStepSound ==
    ASSUME DriveIInv, OwnerNext
    PROVE  \E s : DriveInv(s) /\ Ran("owner", s)
<1> USE DEF Called, Continued
<1>0. DriveInv(drive) /\ Steady(drive)
  <2>1. drive.fault = "none"
    BY DEF OwnerNext, Get, Put, Upload, Blob, End, StreamAck, OwnerGone, Ran
  <2> QED  BY <2>1, HandlerBegins
<1>a. \A kind \in Active : StreamOf(kind) \subseteq HeldBy(drive)
  BY DEF StreamOf, HeldBy
<1>1. CASE \E p \in OwnerPaths : Get(p) \/ Put(p)
  BY <1>0, <1>1, GetSound, UploadSound DEF Get, Put, RoomForStream
<1>2. CASE \E name \in UploadNames : Upload(name)
  BY <1>0, <1>2, UploadSound DEF Upload, Put, RoomForStream
<1>3. CASE \E v \in OwnerContents : Blob(v)
  BY <1>0, <1>a, <1>3, UploadStreamSound DEF Blob, Active, Steady
<1>4. CASE End
  BY <1>0, <1>a, <1>4, UploadStreamSound DEF End, Active, Steady
<1>5. CASE StreamAck
  BY <1>0, <1>a, <1>5, DownloadAckSound, LsAckSound DEF StreamAck, Active
<1>6. CASE OwnerGone
  BY <1>0, <1>6, StreamsFreedSound DEF OwnerGone
<1> QED  BY <1>1, <1>2, <1>3, <1>4, <1>5, <1>6 DEF OwnerNext

LEMMA DriveAlways == DriveSpec => []DriveIInv
<1>1. DriveInit => DriveIInv
  BY DriveInitially
<1>2. DriveIInv /\ [DriveNext]_driveVars => DriveIInv'
  <2> SUFFICES ASSUME DriveIInv, [DriveNext]_driveVars  PROVE DriveIInv'
    OBVIOUS
  <2>1. CASE ServerNext \/ OwnerNext
    <3>1. "rdp" \in Threads /\ "owner" \in Threads
      BY DEF Threads
    <3> QED  BY <2>1, <3>1, ServerStepSound, OwnerStepSound, HandlerStep
  <2>2. CASE CountNext
    BY <2>2, CountStep
  <2>3. CASE UNCHANGED driveVars
    <3>1. drive' = drive
      BY <2>3 DEF driveVars
    <3> QED  BY <3>1 DEF DriveIInv, AtRest
  <2> QED  BY <2>1, <2>2, <2>3 DEF DriveNext
<1> QED  BY <1>1, <1>2, PTL DEF DriveSpec

(* Every id the server or a stream holds is open and no two of them hold   *)
(* the same one, although the two threads open and close without a lock;   *)
(* open_files is off from the open entries only by what is still to be     *)
(* counted and by the updates that overlapped, and the table is overrun    *)
(* only when it is too low.  For any number of files and streams, any      *)
(* paths, and any order of requests, acknowledgements, updates of the      *)
(* count and departures (fs.c, its callers in rdpdr-fs-messages.c,         *)
(* upload.c, download.c and ls.c).                                         *)
THEOREM HandlesNotShared == DriveSpec => []HandlesSound
<1>1. DriveIInv => HandlesSound
  <2> SUFFICES ASSUME DriveIInv  PROVE HandlesSound
    OBVIOUS
  <2>1. Holding({"up", "down", "ls"}) = HeldBy(drive)
    BY DEF Holding, HeldBy, Active
  <2>2. OpenFiles(drive) = drive.fs.n
    BY DEF DriveIInv, AtRest, OpenFiles, Balanced
  <2>3. drive.open \subseteq 0 .. MaxFiles - 1
    BY DriveConsts DEF DriveIInv, Pool
  <2> QED  BY <2>1, <2>2, <2>3 DEF HandlesSound, DriveIInv, Holders, Balanced
<1> QED  BY <1>1, DriveAlways, PTL

-----------------------------------------------------------------------------
(* What the owner gets of the files below \Download.                       *)

(* A sequence is a prefix of another when it agrees with it.               *)
LEMMA PrefixIs ==
    ASSUME NEW S, NEW s \in Seq(S), NEW t \in Seq(S)
    PROVE  IsPrefix(s, t) <=> Len(s) <= Len(t) /\ \A i \in 1 .. Len(s) : s[i] = t[i]
<1>1. ASSUME Len(s) <= Len(t)
      PROVE  (SubSeq(s, 1, Len(s)) = SubSeq(t, 1, Len(s))) <=> (\A i \in 1 .. Len(s) : s[i] = t[i])
  <2>1. Len(s) \in Nat /\ Len(t) \in Nat
    BY LenProperties
  <2>2. /\ SubSeq(s, 1, Len(s)) \in Seq(S) /\ Len(SubSeq(s, 1, Len(s))) = Len(s)
        /\ \A i \in 1 .. Len(s) : SubSeq(s, 1, Len(s))[i] = s[i]
    BY <2>1
  <2>3. /\ SubSeq(t, 1, Len(s)) \in Seq(S) /\ Len(SubSeq(t, 1, Len(s))) = Len(s)
        /\ \A i \in 1 .. Len(s) : SubSeq(t, 1, Len(s))[i] = t[i]
    BY <1>1, <2>1
  <2> QED  BY <2>1, <2>2, <2>3, SeqEqual
<1> QED  BY <1>1 DEF IsPrefix

(* The next buffer of a file keeps what was received a prefix of it; when  *)
(* nothing is left to read all of it was received.                         *)
LEMMA PrefixGrows ==
    ASSUME NEW S, NEW got \in Seq(S), NEW data \in Seq(S), IsPrefix(got, data)
    PROVE  /\ Len(got) < Len(data) => IsPrefix(got \o <<data[Len(got) + 1]>>, data)
           /\ ~(Len(got) < Len(data)) => got = data
<1>1. Len(got) \in Nat /\ Len(data) \in Nat /\ Len(got) <= Len(data)
  BY LenProperties, PrefixIs
<1>2. \A i \in 1 .. Len(got) : got[i] = data[i]
  BY PrefixIs
<1>3. ASSUME Len(got) < Len(data)  PROVE IsPrefix(got \o <<data[Len(got) + 1]>>, data)
  <2> DEFINE x == data[Len(got) + 1]  g == got \o <<x>>
  <2>1. x \in S
    BY <1>1, <1>3, ElementOfSeq
  <2> HIDE DEF x
  <2>2. g \in Seq(S) /\ Len(g) = Len(got) + 1 /\ g[Len(got) + 1] = x /\ \A i \in 1 .. Len(got) : g[i] = got[i]
    BY <1>1, <2>1
  <2> HIDE DEF g
  <2>3. \A i \in 1 .. Len(g) : g[i] = data[i]
    BY <1>1, <1>2, <2>2 DEF x
  <2>4. IsPrefix(g, data)
    BY <1>1, <1>3, <2>2, <2>3, PrefixIs
  <2> QED  BY <2>4 DEF g, x
<1>4. ASSUME ~(Len(got) < Len(data))  PROVE got = data
  <2>1. Len(got) = Len(data)
    BY <1>1, <1>4
  <2> QED  BY <1>2, <2>1, SeqEqual
<1> QED  BY <1>3, <1>4

LEMMA PrefixEmpty == ASSUME NEW S, NEW t \in Seq(S)  PROVE IsPrefix(<<>>, t)
<1>1. <<>> \in Seq(S) /\ Len(<<>>) = 0 /\ Len(t) \in Nat
  OBVIOUS
<1>2. Len(<<>>) <= Len(t) /\ \A i \in 1 .. Len(<<>>) : <<>>[i] = t[i]
  BY <1>1
<1>3. \A u \in Seq(S) : Len(u) <= Len(t) /\ (\A i \in 1 .. Len(u) : u[i] = t[i]) => IsPrefix(u, t)
  BY PrefixIs
<1> QED  BY <1>1, <1>2, <1>3

(* The drive: what the names lead to, and that the directory of a file is  *)
(* there; and the entries of the table.                                    *)
Bytes == Contents \cup OwnerContents \cup {0}
Inodes == [dir : BOOLEAN, data : Seq(Bytes)]
FileFields == {"ino", "mode", "path", "isdir", "reading", "entries", "pat", "written"}
Rooted(s) == \A p \in PathSpace : p # <<>> /\ Exists(s, p) => IsDir(s, Front(p))
Disk(s) ==
    /\ s.inode \in Seq(Inodes)
    /\ s.names \in [PathSpace -> 0 .. Len(s.inode)] /\ Rooted(s)
    /\ DOMAIN s.fs.files = 0 .. MaxFiles - 1
    /\ \A id \in 0 .. MaxFiles - 1 : FileFields \subseteq DOMAIN s.fs.files[id]

(* A file that is open leads to the drive.                                 *)
EntrySound(s, id) == s.fs.files[id].ino \in 1 .. Len(s.inode) /\ s.fs.files[id].path \in PathSpace

(* A download reads the file it was begun for, and what it has delivered   *)
(* is a prefix of it, all of it when it has ended, as long as nobody wrote *)
(* to the file.                                                            *)
StreamSound(s, v) ==
    /\ v.off \in Nat /\ v.got \in Seq(Bytes)
    /\ v.kind \in {"none", "up", "ls"} => v.src = 0
    /\ v.kind = "down" => v.src # 0 /\ v.src = s.fs.files[v.id].ino /\ v.off = Len(v.got)
    /\ v.src # 0 /\ v.clean => /\ IsPrefix(v.got, s.inode[v.src].data)
                               /\ v.kind = "ended" => v.got = s.inode[v.src].data

(* A file that was handed over has a stream.                               *)
HandedOver(s) == \A i \in s.handed : i # 0 /\ \E k \in 1 .. MaxStreams : s.strm[k].src = i

Typed(s) ==
    /\ Shape(s) /\ Disk(s) /\ s.open \subseteq 0 .. MaxFiles - 1
    /\ \A k \in 1 .. MaxStreams : s.strm[k].src \in 0 .. Len(s.inode)
KeptInv(s) ==
    /\ DriveInv(s) /\ Typed(s) /\ HandedOver(s)
    /\ \A id \in s.open : EntrySound(s, id)
    /\ \A k \in 1 .. MaxStreams : StreamSound(s, s.strm[k])

(* What a step of the drive does to the downloads: nothing, but for the    *)
(* content of the file, which is noted.                                    *)
StreamLater(s, t, v, w) ==
    /\ w.kind = v.kind /\ w.id = v.id /\ w.off = v.off /\ w.got = v.got /\ w.src = v.src
    /\ w.clean => v.clean /\ (v.src # 0 => t.inode[v.src].data = s.inode[v.src].data)
Later(s, t) ==
    /\ Typed(t) /\ Len(s.inode) <= Len(t.inode) /\ t.handed = s.handed
    /\ \A id \in s.open : t.fs.files[id].ino = s.fs.files[id].ino /\ t.fs.files[id].path = s.fs.files[id].path
    /\ \A k \in 1 .. MaxStreams : StreamLater(s, t, s.strm[k], t.strm[k])

LEMMA LaterSelf == ASSUME NEW s, Typed(s)  PROVE Later(s, s)
<1>1. Len(s.inode) <= Len(s.inode)
  BY LenProperties DEF Typed, Disk
<1> QED  BY <1>1 DEF Later, StreamLater

LEMMA LaterTwice ==
    ASSUME NEW s, NEW t, NEW u, Typed(s), Later(s, t), Later(t, u), s.open \subseteq t.open
    PROVE  Later(s, u)
<1>1. Len(s.inode) <= Len(u.inode)
  BY LenProperties DEF Later, Typed, Disk
<1>2. ASSUME NEW k \in 1 .. MaxStreams  PROVE StreamLater(s, u, s.strm[k], u.strm[k])
  <2>1. StreamLater(s, t, s.strm[k], t.strm[k]) /\ StreamLater(t, u, t.strm[k], u.strm[k])
    BY DEF Later
  <2> QED  BY <2>1 DEF StreamLater
<1> QED  BY <1>1, <1>2 DEF Later

(* Such a step keeps the invariant, when the files it opens lead to the    *)
(* drive.                                                                  *)
LEMMA LaterKept ==
    ASSUME NEW s, NEW t, KeptInv(s), Later(s, t), DriveInv(t),
           \A id \in t.open \ s.open : EntrySound(t, id)
    PROVE  KeptInv(t)
<1>1. HandedOver(t)
  BY DEF KeptInv, HandedOver, Later, StreamLater
<1>2. ASSUME NEW id \in t.open  PROVE EntrySound(t, id)
  <2>1. CASE id \in s.open
    <3>1. Len(s.inode) \in Nat /\ Len(t.inode) \in Nat
      BY LenProperties DEF KeptInv, Later, Typed, Disk
    <3> QED  BY <2>1, <3>1 DEF KeptInv, EntrySound, Later
  <2> QED  BY <2>1
<1>3. ASSUME NEW k \in 1 .. MaxStreams  PROVE StreamSound(t, t.strm[k])
  <2> DEFINE v == s.strm[k]  w == t.strm[k]
  <2>1. StreamSound(s, v) /\ StreamLater(s, t, v, w)
    BY DEF KeptInv, Later
  <2>2. v.kind = "down" => v.id \in s.open
    BY DEF KeptInv, DriveInv, Holders, HeldBy, Active
  <2>3. v.kind = "down" => t.fs.files[v.id].ino = s.fs.files[v.id].ino
    BY <2>2 DEF Later
  <2> HIDE DEF v, w
  <2>4. StreamSound(t, w)
    BY <2>1, <2>3 DEF StreamSound, StreamLater
  <2> QED  BY <2>4 DEF w
<1> QED  BY <1>1, <1>2, <1>3 DEF KeptInv, Later

(* A step that changes only names, and inodes that were not there.         *)
LEMMA NamesLater ==
    ASSUME NEW s, NEW t, Typed(s), DOMAIN t = DOMAIN s,
           t.fs = s.fs, t.due = s.due, t.strm = s.strm, t.handed = s.handed, t.open = s.open,
           t.inode \in Seq(Inodes), Len(s.inode) <= Len(t.inode),
           \A i \in 1 .. Len(s.inode) : t.inode[i] = s.inode[i],
           t.names \in [PathSpace -> 0 .. Len(t.inode)], Rooted(t)
    PROVE  Later(s, t)
<1>1. Len(s.inode) \in Nat /\ Len(t.inode) \in Nat
  BY LenProperties DEF Typed, Disk
<1>2. Shape(t)
  BY DEF Typed, Shape
<1>3. Disk(t)
  BY DEF Typed, Disk
<1>4. \A k \in 1 .. MaxStreams : t.strm[k].src \in 0 .. Len(t.inode)
  BY <1>1 DEF Typed
<1>5. ASSUME NEW k \in 1 .. MaxStreams  PROVE StreamLater(s, t, s.strm[k], t.strm[k])
  <2>1. s.strm[k].src \in 0 .. Len(s.inode)
    BY DEF Typed
  <2>2. s.strm[k].src # 0 => s.strm[k].src \in 1 .. Len(s.inode)
    BY <1>1, <2>1
  <2> QED  BY <2>2 DEF StreamLater
<1> QED  BY <1>2, <1>3, <1>4, <1>5 DEF Later, Typed

(* The directory of a path.                                                *)
LEMMA FrontIs ==
    ASSUME NEW S, NEW p \in Seq(S), p # <<>>
    PROVE  /\ Front(p) \in Seq(S) /\ Len(Front(p)) = Len(p) - 1 /\ Len(p) \in Nat \ {0}
           /\ \A i \in 1 .. Len(p) - 1 : Front(p)[i] = p[i]
<1>1. Len(p) \in Nat /\ Len(p) # 0
  BY EmptySeq, LenProperties
<1> DEFINE n == Len(p) - 1
<1>2. n \in Nat /\ \A i \in 1 .. n : p[i] \in S
  BY <1>1, ElementOfSeq
<1>3. Front(p) = SubSeq(p, 1, n)
  BY DEF Front
<1> HIDE DEF n
<1>4. SubSeq(p, 1, n) \in Seq(S) /\ Len(SubSeq(p, 1, n)) = n /\ \A i \in 1 .. n : SubSeq(p, 1, n)[i] = p[i]
  BY <1>2, SubSeqProperties
<1> QED  BY <1>1, <1>3, <1>4 DEF n

LEMMA ParentPath ==
    ASSUME NEW p \in PathSpace, p # <<>>
    PROVE  Front(p) \in PathSpace /\ Front(p) # p /\ Len(p) = Len(Front(p)) + 1
<1>1. Front(p) \in PathSpace /\ p \in Seq(STRING)
  BY DrivePaths
<1>2. Len(Front(p)) = Len(p) - 1 /\ Len(p) \in Nat
  BY <1>1, FrontIs
<1> QED  BY <1>1, <1>2

(* A file or a directory is made where its directory is.                   *)
LEMMA MadeLater ==
    ASSUME NEW s, Typed(s), NEW p \in PathSpace, HasParent(s, p), ~Exists(s, p), NEW dir \in BOOLEAN
    PROVE  LET t == MakeInode(s, p, dir) IN Later(s, t) /\ Exists(t, p) /\ t.open = s.open
<1> DEFINE t == MakeInode(s, p, dir)  n == Len(s.inode)
<1>1. /\ DOMAIN t = DOMAIN s /\ t.fs = s.fs /\ t.strm = s.strm /\ t.handed = s.handed /\ t.open = s.open
      /\ t.inode = Append(s.inode, [dir |-> dir, data |-> <<>>])
      /\ t.names = [s.names EXCEPT ![p] = n + 1]
  BY DEF MakeInode, Typed, Shape
<1>11. t.due = s.due
  BY DEF MakeInode, Typed, Shape
<1> HIDE DEF t
<1>2. s.inode \in Seq(Inodes) /\ n \in Nat /\ s.names \in [PathSpace -> 0 .. n] /\ Rooted(s)
  BY LenProperties DEF Typed, Disk
<1>3. [dir |-> dir, data |-> <<>>] \in Inodes
  BY DEF Inodes
<1>4. t.inode \in Seq(Inodes) /\ Len(t.inode) = n + 1 /\ \A i \in 1 .. n : t.inode[i] = s.inode[i]
  BY <1>1, <1>2, <1>3, AppendProperties
<1> HIDE DEF n
<1>5. t.names \in [PathSpace -> 0 .. Len(t.inode)] /\ t.names[p] = n + 1 /\ \A r \in PathSpace : r # p => t.names[r] = s.names[r]
  BY <1>1, <1>2, <1>4
<1>6. ASSUME NEW r \in PathSpace, r # <<>>, Exists(t, r)  PROVE IsDir(t, Front(r))
  <2>1. Front(r) \in PathSpace /\ Front(r) # r
    BY <1>6, ParentPath
  <2>2. IsDir(s, Front(r))
    BY <1>2, <1>5, <1>6 DEF Rooted, Exists, HasParent
  <2>3. Front(r) # p /\ s.names[Front(r)] \in 1 .. n
    BY <1>2, <2>1, <2>2 DEF IsDir, Exists
  <2> QED  BY <1>2, <1>4, <1>5, <2>1, <2>2, <2>3 DEF IsDir, Exists
<1>7. Rooted(t)
  BY <1>6 DEF Rooted
<1>8. Exists(t, p)
  BY <1>2, <1>5 DEF Exists
<1>9. Len(s.inode) <= Len(t.inode) /\ \A i \in 1 .. Len(s.inode) : t.inode[i] = s.inode[i]
  BY <1>2, <1>4 DEF n
<1>10. Later(s, t)
  BY <1>1, <1>4, <1>5, <1>7, <1>9, <1>11, NamesLater
<1> QED  BY <1>1, <1>8, <1>10 DEF t

(* A file, or a directory without entries, is removed.                     *)
LEMMA UnlinkedLater ==
    ASSUME NEW s, Typed(s), NEW p \in PathSpace, ~IsDir(s, p) \/ Children(s, p) = {}
    PROVE  Later(s, Unlinked(s, p)) /\ Unlinked(s, p).open = s.open
<1> DEFINE t == Unlinked(s, p)
<1>1. /\ DOMAIN t = DOMAIN s /\ t.fs = s.fs /\ t.strm = s.strm /\ t.handed = s.handed /\ t.open = s.open
      /\ t.due = s.due /\ t.inode = s.inode /\ t.names = [s.names EXCEPT ![p] = 0]
  BY DEF Unlinked, Typed, Shape
<1> HIDE DEF t
<1>2. s.inode \in Seq(Inodes) /\ Len(s.inode) \in Nat /\ s.names \in [PathSpace -> 0 .. Len(s.inode)] /\ Rooted(s)
  BY LenProperties DEF Typed, Disk
<1>3. t.names \in [PathSpace -> 0 .. Len(t.inode)] /\ \A r \in PathSpace : t.names[r] = IF r = p THEN 0 ELSE s.names[r]
  BY <1>1, <1>2
<1>4. ASSUME NEW r \in PathSpace, r # <<>>, Exists(t, r)  PROVE IsDir(t, Front(r))
  <2>1. Front(r) \in PathSpace /\ Len(r) = Len(Front(r)) + 1
    BY <1>4, ParentPath
  <2>2. Exists(s, r) /\ IsDir(s, Front(r))
    BY <1>2, <1>3, <1>4 DEF Rooted, Exists
  <2>3. Front(r) # p
    BY <2>1, <2>2 DEF Children
  <2> QED  BY <1>1, <1>3, <2>1, <2>2, <2>3 DEF IsDir, Exists
<1>5. Rooted(t)
  BY <1>4 DEF Rooted
<1>6. Later(s, t)
  BY <1>1, <1>2, <1>3, <1>5, NamesLater
<1> QED  BY <1>1, <1>6 DEF t

(* A change of the content of a file is noted in its downloads.            *)
LEMMA DataLater ==
    ASSUME NEW s, Typed(s), NEW ino \in 1 .. Len(s.inode), NEW data \in Seq(Bytes)
    PROVE  Later(s, SetData(s, ino, data)) /\ SetData(s, ino, data).open = s.open
<1> DEFINE t == SetData(s, ino, data)
<1>1. /\ DOMAIN t = DOMAIN s /\ t.fs = s.fs /\ t.handed = s.handed /\ t.open = s.open /\ t.names = s.names
      /\ t.inode = [s.inode EXCEPT ![ino].data = data] /\ t.due = s.due
  BY DEF SetData, Typed, Shape
<1>2. t.strm = [k \in DOMAIN s.strm |-> IF s.strm[k].src = ino THEN [s.strm[k] EXCEPT !.clean = FALSE]
                                        ELSE s.strm[k]]
  BY DEF SetData, Typed, Shape
<1> HIDE DEF t
<1>3. s.inode \in Seq(Inodes) /\ Len(s.inode) \in Nat /\ s.names \in [PathSpace -> 0 .. Len(s.inode)] /\ Rooted(s)
  BY LenProperties DEF Typed, Disk
<1>4. s.inode[ino] \in Inodes /\ [s.inode[ino] EXCEPT !.data = data] \in Inodes
  <2>1. s.inode[ino] \in Inodes
    BY <1>3, ElementOfSeq
  <2>2. \A e \in Inodes : [e EXCEPT !.data = data] \in Inodes
    BY DEF Inodes
  <2> QED  BY <2>1, <2>2
<1>5. /\ t.inode \in Seq(Inodes) /\ Len(t.inode) = Len(s.inode)
      /\ \A i \in 1 .. Len(s.inode) : t.inode[i] = IF i = ino THEN [s.inode[ino] EXCEPT !.data = data] ELSE s.inode[i]
  <2> DEFINE e == [s.inode[ino] EXCEPT !.data = data]
  <2>1. t.inode = [s.inode EXCEPT ![ino] = e]
    BY <1>1
  <2> HIDE DEF e
  <2>2. e \in Inodes
    BY <1>4 DEF e
  <2>3. DOMAIN s.inode = 1 .. Len(s.inode)
    BY <1>3, LenProperties
  <2>4. /\ t.inode \in Seq(Inodes) /\ Len(t.inode) = Len(s.inode)
        /\ \A i \in 1 .. Len(s.inode) : t.inode[i] = IF i = ino THEN e ELSE s.inode[i]
    BY <1>3, <2>1, <2>2, <2>3, ExceptSeq
  <2> QED  BY <2>4 DEF e
<1>6. \A i \in 1 .. Len(s.inode) : t.inode[i].dir = s.inode[i].dir
  BY <1>4, <1>5 DEF Inodes
<1>7. ASSUME NEW r \in PathSpace, r # <<>>, Exists(t, r)  PROVE IsDir(t, Front(r))
  <2>1. IsDir(s, Front(r)) /\ Front(r) \in PathSpace
    BY <1>1, <1>3, <1>7, ParentPath DEF Rooted, Exists
  <2>2. s.names[Front(r)] \in 1 .. Len(s.inode)
    BY <1>3, <2>1 DEF IsDir, Exists
  <2> QED  BY <1>1, <1>6, <2>1, <2>2 DEF IsDir, Exists
<1>8. Rooted(t)
  BY <1>7 DEF Rooted
<1>9. Shape(t)
  BY <1>1, <1>2 DEF Typed, Shape, StreamFields
<1>10. Disk(t)
  BY <1>1, <1>3, <1>5, <1>8 DEF Typed, Disk
<1>11. ASSUME NEW k \in 1 .. MaxStreams
       PROVE  StreamLater(s, t, s.strm[k], t.strm[k]) /\ t.strm[k].src \in 0 .. Len(t.inode)
  <2> DEFINE v == s.strm[k]  w == t.strm[k]
  <2>1. v.src \in 0 .. Len(s.inode) /\ StreamFields \subseteq DOMAIN v
    BY DEF Typed, Shape
  <2>2. w = IF v.src = ino THEN [v EXCEPT !.clean = FALSE] ELSE v
    BY <1>2 DEF Typed, Shape
  <2> HIDE DEF v, w
  <2>3. /\ w.kind = v.kind /\ w.id = v.id /\ w.off = v.off /\ w.got = v.got /\ w.src = v.src
        /\ w.clean => v.clean /\ v.src # ino
    BY <2>1, <2>2 DEF StreamFields
  <2>4. v.src # 0 /\ v.src # ino => t.inode[v.src] = s.inode[v.src]
    BY <1>3, <1>5, <2>1
  <2>5. StreamLater(s, t, v, w)
    BY <2>3, <2>4 DEF StreamLater
  <2> QED  BY <1>5, <2>1, <2>3, <2>5 DEF v, w
<1>12. Later(s, t)
  BY <1>1, <1>3, <1>5, <1>9, <1>10, <1>11 DEF Later, Typed
<1> QED  BY <1>1, <1>12 DEF t

(* A step that changes only the table.                                     *)
LEMMA FilesLater ==
    ASSUME NEW s, NEW t, Typed(s), Shape(t), t.names = s.names, t.inode = s.inode, t.handed = s.handed,
           t.open \subseteq 0 .. MaxFiles - 1,
           \A k \in 1 .. MaxStreams : StreamLater(s, t, s.strm[k], t.strm[k]),
           DOMAIN t.fs.files = 0 .. MaxFiles - 1,
           \A id \in 0 .. MaxFiles - 1 : FileFields \subseteq DOMAIN t.fs.files[id],
           \A id \in s.open : /\ t.fs.files[id].ino = s.fs.files[id].ino
                              /\ t.fs.files[id].path = s.fs.files[id].path
    PROVE  Later(s, t)
<1>1. Rooted(t)
  BY DEF Rooted, Typed, Disk, Exists, IsDir
<1>2. Disk(t) /\ Len(s.inode) <= Len(t.inode)
  BY <1>1, LenProperties DEF Typed, Disk
<1>3. \A k \in 1 .. MaxStreams : t.strm[k].src \in 0 .. Len(t.inode)
  BY DEF Typed, StreamLater
<1> QED  BY <1>2, <1>3 DEF Later, Typed

(* Updates of a state that the downloads do not notice.                    *)
LEMMA SmallLater ==
    ASSUME NEW s, Typed(s)
    PROVE  /\ \A r : Later(s, [s EXCEPT !.reply = r])
           /\ \A x : Later(s, [s EXCEPT !.chan.told = x])
           /\ \A id, entries : Later(s, SetDirStream(s, id, entries))
           /\ \A id, x : Later(s, [s EXCEPT !.fs.files[id].pat = x])
           /\ \A id, x : Later(s, [s EXCEPT !.fs.files[id].written = x])
           /\ \A id : Later(s, CloseFile(s, id))
<1>0. Shape(s) /\ Disk(s) /\ s.open \subseteq 0 .. MaxFiles - 1
  BY DEF Typed
<1>1. ASSUME NEW t, DOMAIN t = DOMAIN s, t.names = s.names, t.inode = s.inode, t.handed = s.handed,
             t.due = s.due, t.open \subseteq s.open, t.strm = s.strm, t.fs.files = s.fs.files, DOMAIN t.fs = DOMAIN s.fs
      PROVE  Later(s, t)
  <2>1. Shape(t)
    BY <1>0, <1>1 DEF Shape
  <2> QED  BY <1>0, <1>1, <2>1, FilesLater DEF Disk, StreamLater
<1>2. ASSUME NEW t, DOMAIN t = DOMAIN s, t.names = s.names, t.inode = s.inode, t.handed = s.handed,
             t.due = s.due, t.open \subseteq s.open, t.strm = s.strm, NEW id, NEW f, DOMAIN t.fs = DOMAIN s.fs,
             t.fs.files = [s.fs.files EXCEPT ![id] = f],
             id \in 0 .. MaxFiles - 1 => FileFields \subseteq DOMAIN f /\ f.ino = s.fs.files[id].ino /\ f.path = s.fs.files[id].path
      PROVE  Later(s, t)
  <2>1. Shape(t)
    BY <1>0, <1>2 DEF Shape
  <2>2. \A i \in 0 .. MaxFiles - 1 : /\ FileFields \subseteq DOMAIN t.fs.files[i]
                                     /\ t.fs.files[i].ino = s.fs.files[i].ino /\ t.fs.files[i].path = s.fs.files[i].path
    BY <1>0, <1>2 DEF Disk
  <2>3. DOMAIN t.fs.files = 0 .. MaxFiles - 1
    BY <1>0, <1>2 DEF Disk
  <2> QED  BY <1>0, <1>2, <2>1, <2>2, <2>3, FilesLater DEF StreamLater
<1>3. \A r : Later(s, [s EXCEPT !.reply = r])
  BY <1>0, <1>1 DEF Shape
<1>4. \A x : Later(s, [s EXCEPT !.chan.told = x])
  BY <1>0, <1>1 DEF Shape
<1>5. ASSUME NEW id  PROVE Later(s, CloseFile(s, id))
  <2>1. CASE ~ValidId(id)
    BY <2>1, LaterSelf DEF CloseFile
  <2>2. CASE ValidId(id)
    <3> DEFINE t == CloseFile(s, id)
    <3>1. /\ DOMAIN t = DOMAIN s /\ t.names = s.names /\ t.inode = s.inode /\ t.handed = s.handed
          /\ t.due = s.due /\ t.open \subseteq s.open /\ t.strm = s.strm /\ t.fs.files = s.fs.files
          /\ DOMAIN t.fs = DOMAIN s.fs
      BY <1>0, <2>2 DEF CloseFile, Shape
    <3> HIDE DEF t
    <3>2. Later(s, t)
      BY <1>1, <3>1
    <3> QED  BY <3>2 DEF t
  <2> QED  BY <2>1, <2>2
<1>6. ASSUME NEW id, NEW f, id \in 0 .. MaxFiles - 1 => /\ FileFields \subseteq DOMAIN f /\ f.ino = s.fs.files[id].ino
                                                        /\ f.path = s.fs.files[id].path
      PROVE  Later(s, [s EXCEPT !.fs.files[id] = f])
  <2> DEFINE t == [s EXCEPT !.fs.files[id] = f]
  <2>1. /\ DOMAIN t = DOMAIN s /\ t.names = s.names /\ t.inode = s.inode /\ t.handed = s.handed
        /\ t.due = s.due /\ t.open \subseteq s.open /\ t.strm = s.strm /\ DOMAIN t.fs = DOMAIN s.fs
        /\ t.fs.files = [s.fs.files EXCEPT ![id] = f]
    BY <1>0 DEF Shape
  <2> HIDE DEF t
  <2>2. Later(s, t)
    BY <1>2, <1>6, <2>1
  <2> QED  BY <2>2 DEF t
<1>7. ASSUME NEW id  PROVE (\A x : Later(s, [s EXCEPT !.fs.files[id].pat = x])) /\ (\A x : Later(s, [s EXCEPT !.fs.files[id].written = x]))
  <2>1. ASSUME NEW x, NEW c \in {"pat", "written"}  PROVE Later(s, [s EXCEPT !.fs.files[id] = [@ EXCEPT ![c] = x]])
    <3> DEFINE f == [s.fs.files[id] EXCEPT ![c] = x]
    <3>1. id \in 0 .. MaxFiles - 1 => FileFields \subseteq DOMAIN f /\ f.ino = s.fs.files[id].ino /\ f.path = s.fs.files[id].path
      BY <1>0, <2>1 DEF Disk, FileFields
    <3> HIDE DEF f
    <3>2. Later(s, [s EXCEPT !.fs.files[id] = f])
      BY <1>6, <3>1
    <3> QED  BY <3>2 DEF f
  <2> QED  BY <2>1
<1>8. ASSUME NEW id, NEW entries  PROVE Later(s, SetDirStream(s, id, entries))
  <2> DEFINE f == [s.fs.files[id] EXCEPT !.reading = TRUE, !.entries = entries]
  <2>1. id \in 0 .. MaxFiles - 1 => FileFields \subseteq DOMAIN f /\ f.ino = s.fs.files[id].ino /\ f.path = s.fs.files[id].path
    BY <1>0 DEF Disk, FileFields
  <2> HIDE DEF f
  <2>2. Later(s, [s EXCEPT !.fs.files[id] = f])
    BY <1>6, <2>1
  <2>3. SetDirStream(s, id, entries) = [s EXCEPT !.fs.files[id] = f]
    BY DEF SetDirStream, f
  <2> QED  BY <2>2, <2>3
<1> QED  BY <1>3, <1>4, <1>5, <1>7, <1>8

(* The prefixes of the directory of a path are those of the path but one.  *)
LEMMA PrefixFront ==
    ASSUME NEW S, NEW p \in Seq(S), NEW r \in Seq(S), r # <<>>
    PROVE  IsPrefix(p, Front(r)) <=> IsPrefix(p, r) /\ p # r
<1>1. /\ Front(r) \in Seq(S) /\ Len(Front(r)) = Len(r) - 1 /\ Len(r) \in Nat \ {0}
      /\ \A i \in 1 .. Len(r) - 1 : Front(r)[i] = r[i]
  BY FrontIs
<1>2. Len(p) \in Nat
  BY LenProperties
<1>3. IsPrefix(p, Front(r)) <=> Len(p) <= Len(r) - 1 /\ \A i \in 1 .. Len(p) : p[i] = Front(r)[i]
  BY <1>1, PrefixIs
<1>4. IsPrefix(p, r) <=> Len(p) <= Len(r) /\ \A i \in 1 .. Len(p) : p[i] = r[i]
  BY PrefixIs
<1>5. IsPrefix(p, Front(r)) => IsPrefix(p, r) /\ p # r
  BY <1>1, <1>2, <1>3, <1>4
<1>6. ASSUME IsPrefix(p, r), p # r  PROVE IsPrefix(p, Front(r))
  <2>1. Len(p) # Len(r)
    BY <1>4, <1>6, SeqEqual
  <2> QED  BY <1>1, <1>2, <1>3, <1>4, <1>6, <2>1
<1> QED  BY <1>5, <1>6

(* Where a path below q was before p was renamed to q.                     *)
MovedFrom(p, q, r) == p \o SubSeq(r, Len(q) + 1, Len(r))

LEMMA RenamedFrom ==
    ASSUME NEW S, NEW p \in Seq(S), NEW q \in Seq(S), NEW r \in Seq(S), r # <<>>, IsPrefix(q, Front(r))
    PROVE  MovedFrom(p, q, r) # <<>> /\ MovedFrom(p, q, Front(r)) = Front(MovedFrom(p, q, r))
<1> DEFINE m == Len(q)  n == Len(r)
           d == SubSeq(r, m + 1, n)  e == SubSeq(Front(r), m + 1, n - 1)
<1>1. /\ Front(r) \in Seq(S) /\ Len(Front(r)) = n - 1 /\ n \in Nat \ {0}
      /\ \A i \in 1 .. n - 1 : Front(r)[i] = r[i]
  BY FrontIs
<1>2. m \in Nat /\ m <= n - 1 /\ Len(p) \in Nat
  <2>1. m <= Len(Front(r))
    BY DEF IsPrefix
  <2> QED  BY <1>1, <2>1, LenProperties
<1>3. d \in Seq(S) /\ Len(d) = n - m /\ \A i \in 1 .. n - m : d[i] = r[m + i]
  <2>1. m + 1 \in Int /\ n \in Int /\ \A i \in m + 1 .. n : r[i] \in S
    BY <1>1, <1>2, ElementOfSeq
  <2>2. /\ d \in Seq(S) /\ Len(d) = IF m + 1 <= n THEN n - (m + 1) + 1 ELSE 0
        /\ \A i \in 1 .. n - (m + 1) + 1 : d[i] = r[m + 1 + i - 1]
    BY <2>1, SubSeqProperties
  <2> HIDE DEF d, m, n
  <2> QED  BY <1>1, <1>2, <2>2
<1>4. e \in Seq(S) /\ Len(e) = n - 1 - m /\ \A i \in 1 .. n - 1 - m : e[i] = r[m + i]
  <2>1. m + 1 \in Int /\ n - 1 \in Int /\ \A i \in m + 1 .. n - 1 : Front(r)[i] \in S
    BY <1>1, <1>2, ElementOfSeq
  <2>2. /\ e \in Seq(S) /\ Len(e) = IF m + 1 <= n - 1 THEN n - 1 - (m + 1) + 1 ELSE 0
        /\ \A i \in 1 .. n - 1 - (m + 1) + 1 : e[i] = Front(r)[m + 1 + i - 1]
    BY <2>1, SubSeqProperties
  <2> HIDE DEF e, m, n
  <2> QED  BY <1>1, <1>2, <2>2
<1> HIDE DEF d, e, m, n
<1> DEFINE a == Len(p)  b == Len(d)
<1>5. /\ p \o d \in Seq(S) /\ Len(p \o d) = a + b
      /\ \A i \in 1 .. a + b : (p \o d)[i] = IF i <= a THEN p[i] ELSE d[i - a]
  BY <1>3, ConcatProperties
<1>6. /\ p \o e \in Seq(S) /\ Len(p \o e) = a + Len(e)
      /\ \A i \in 1 .. a + Len(e) : (p \o e)[i] = IF i <= a THEN p[i] ELSE e[i - a]
  BY <1>4, ConcatProperties
<1>7. a \in Nat /\ b \in Nat \ {0} /\ Len(e) = b - 1 /\ \A i \in 1 .. b - 1 : e[i] = d[i]
  BY <1>1, <1>2, <1>3, <1>4
<1> DEFINE x == p \o d  y == p \o e
<1> HIDE DEF a, b, x, y
<1>8. x # <<>>
  BY <1>5, <1>7 DEF x
<1>9. Front(x) \in Seq(S) /\ Len(Front(x)) = a + b - 1 /\ \A i \in 1 .. a + b - 1 : Front(x)[i] = x[i]
  <2>1. x \in Seq(S) /\ Len(x) = a + b
    BY <1>5 DEF x
  <2>2. Front(x) \in Seq(S) /\ Len(Front(x)) = Len(x) - 1 /\ \A i \in 1 .. Len(x) - 1 : Front(x)[i] = x[i]
    BY <1>8, <2>1, FrontIs
  <2> QED  BY <1>7, <2>1, <2>2
<1>10. y = Front(x)
  <2>1. y \in Seq(S) /\ Len(y) = a + b - 1
    BY <1>6, <1>7 DEF y
  <2>2. ASSUME NEW i \in 1 .. a + b - 1  PROVE y[i] = x[i]
    <3>1. i \in 1 .. a + Len(e) /\ i \in 1 .. a + b
      BY <1>7
    <3>2. y[i] = (IF i <= a THEN p[i] ELSE e[i - a]) /\ x[i] = (IF i <= a THEN p[i] ELSE d[i - a])
      BY <1>5, <1>6, <3>1 DEF x, y
    <3>3. ~(i <= a) => i - a \in 1 .. b - 1
      BY <1>7
    <3> QED  BY <1>7, <3>2, <3>3
  <2>3. \A i \in 1 .. Len(y) : y[i] = Front(x)[i]
    BY <1>9, <2>1, <2>2
  <2> QED  BY <1>9, <2>1, <2>3, SeqEqual
<1>11. SubSeq(r, Len(q) + 1, Len(r)) = d /\ SubSeq(Front(r), Len(q) + 1, Len(Front(r))) = e
  BY <1>1 DEF d, e, m, n
<1> QED  BY <1>8, <1>10, <1>11 DEF x, y, MovedFrom

(* A file or a directory gets a name whose directory is there.             *)
LEMMA RenamedLater ==
    ASSUME NEW s, Typed(s), NEW p \in PathSpace, NEW q \in PathSpace,
           p = q \/ (HasParent(s, q) /\ ~IsPrefix(p, q))
    PROVE  Later(s, PosixRename(s, p, q)) /\ PosixRename(s, p, q).open = s.open
<1>1. CASE p = q
  BY <1>1, LaterSelf DEF PosixRename
<1>2. CASE p # q
  <2> DEFINE t == PosixRename(s, p, q)
             g == [r \in PathSpace |->
                     IF IsPrefix(q, r) THEN IF MovedFrom(p, q, r) \in PathSpace THEN s.names[MovedFrom(p, q, r)] ELSE 0
                     ELSE IF IsPrefix(p, r) THEN 0 ELSE s.names[r]]
  <2>1. t = [s EXCEPT !.names = g]
    BY <1>2 DEF PosixRename, MovedFrom
  <2> HIDE DEF t
  <2>2. /\ DOMAIN t = DOMAIN s /\ t.fs = s.fs /\ t.strm = s.strm /\ t.handed = s.handed /\ t.open = s.open
        /\ t.due = s.due /\ t.inode = s.inode /\ t.names = g
    BY <2>1 DEF Typed, Shape
  <2>3. s.inode \in Seq(Inodes) /\ Len(s.inode) \in Nat /\ s.names \in [PathSpace -> 0 .. Len(s.inode)] /\ Rooted(s)
    BY LenProperties DEF Typed, Disk
  <2>4. t.names \in [PathSpace -> 0 .. Len(t.inode)]
    <3> DEFINE N == 0 .. Len(s.inode)
    <3>1. 0 \in N /\ s.names \in [PathSpace -> N]
      BY <2>3
    <3> HIDE DEF N
    <3>2. \A r \in PathSpace : s.names[r] \in N
      BY <3>1
    <3>3. g \in [PathSpace -> N]
      BY <3>1, <3>2
    <3> HIDE DEF g
    <3> QED  BY <2>2, <3>3 DEF N
  <2>5. \A r \in PathSpace : t.names[r] =
           IF IsPrefix(q, r) THEN IF MovedFrom(p, q, r) \in PathSpace THEN s.names[MovedFrom(p, q, r)] ELSE 0
           ELSE IF IsPrefix(p, r) THEN 0 ELSE s.names[r]
    BY <2>2
  <2> HIDE DEF g
  <2>6. HasParent(s, q) /\ ~IsPrefix(p, q) /\ PathSpace \subseteq Seq(STRING)
    BY <1>2, DrivePaths
  <2>7. ASSUME NEW r \in PathSpace, r # <<>>, Exists(t, r)  PROVE IsDir(t, Front(r))
    <3>1. Front(r) \in PathSpace /\ r \in Seq(STRING) /\ p \in Seq(STRING) /\ q \in Seq(STRING)
      BY <2>6, <2>7, ParentPath
    <3>2. /\ IsPrefix(p, Front(r)) <=> IsPrefix(p, r) /\ p # r
          /\ IsPrefix(q, Front(r)) <=> IsPrefix(q, r) /\ q # r
      BY <2>7, <3>1, PrefixFront
    <3>3. CASE IsPrefix(q, r) /\ r # q
      <4>1. MovedFrom(p, q, r) # <<>> /\ MovedFrom(p, q, Front(r)) = Front(MovedFrom(p, q, r))
        <5>1. IsPrefix(q, Front(r))
          BY <3>2, <3>3
        <5> QED  BY <2>7, <3>1, <5>1, RenamedFrom
      <4>2. MovedFrom(p, q, r) \in PathSpace /\ s.names[MovedFrom(p, q, r)] # 0
        BY <2>5, <2>7, <3>3 DEF Exists
      <4>3. IsDir(s, Front(MovedFrom(p, q, r))) /\ Front(MovedFrom(p, q, r)) \in PathSpace
        BY <2>3, <4>1, <4>2, ParentPath DEF Rooted, Exists
      <4>4. t.names[Front(r)] = s.names[Front(MovedFrom(p, q, r))]
        BY <2>5, <3>1, <3>2, <3>3, <4>1, <4>3
      <4> QED  BY <2>2, <4>3, <4>4 DEF IsDir, Exists
    <3>4. CASE r = q
      <4>1. IsDir(s, Front(q))
        BY <2>6, <2>7, <3>4 DEF HasParent
      <4>2. t.names[Front(r)] = s.names[Front(q)]
        BY <2>5, <2>6, <3>1, <3>2, <3>4
      <4> QED  BY <2>2, <4>1, <4>2 DEF IsDir, Exists
    <3>5. CASE ~IsPrefix(q, r)
      <4>1. ~IsPrefix(p, r) /\ s.names[r] # 0
        BY <2>5, <2>7, <3>5 DEF Exists
      <4>2. t.names[Front(r)] = s.names[Front(r)]
        BY <2>5, <3>1, <3>2, <3>5, <4>1
      <4> QED  BY <2>2, <2>3, <2>7, <4>1, <4>2 DEF Rooted, IsDir, Exists
    <3> QED  BY <3>3, <3>4, <3>5
  <2>8. Rooted(t)
    BY <2>7 DEF Rooted
  <2>9. Later(s, t)
    <3>1. Len(s.inode) <= Len(t.inode) /\ \A i \in 1 .. Len(s.inode) : t.inode[i] = s.inode[i]
      <4>1. t.inode = s.inode /\ Len(s.inode) \in Nat
        BY <2>2, <2>3
      <4> QED  BY <4>1
    <3> QED  BY <2>2, <2>3, <2>4, <2>8, <3>1, NamesLater
  <2> QED  BY <2>2, <2>9 DEF t
<1> QED  BY <1>1, <1>2

(* The program is at an end.                                               *)
LEMMA FaultedLater ==
    ASSUME NEW s, Typed(s), NEW what
    PROVE  /\ Later(s, Faulted(s, what)) /\ Faulted(s, what).fault = what
           /\ Faulted(s, what).open = s.open /\ Faulted(s, what).handed = s.handed
<1> DEFINE t == Faulted(s, what)
<1>1. /\ Shape(t) /\ t.names = s.names /\ t.inode = s.inode /\ t.handed = s.handed /\ t.strm = s.strm
      /\ t.fs = s.fs /\ t.open = s.open /\ t.fault = what
  BY DEF Faulted, Typed, Shape
<1> HIDE DEF t
<1>2. Later(s, t)
  BY <1>1, FilesLater DEF Typed, Disk, StreamLater
<1> QED  BY <1>1, <1>2 DEF t

(* An entry is added for a descriptor.                                     *)
LEMMA AddedLater ==
    ASSUME NEW s, Typed(s), Sound(s), Ready(s), OpenFiles(s) < MaxFiles, ~TableFull(s), NEW p, NEW mode
    PROVE  LET o == AddEntry(s, p, mode) IN
           Later(s, o.s) /\ o.s.fs.files[o.id] = NewFile(s, p, mode) /\ o.s.inode = s.inode /\ Fresh(s, o)
<1> DEFINE o == AddEntry(s, p, mode)  t == o.s
<1>1. Fresh(s, o)
  BY EntryAdded
<1>2. /\ t.names = s.names /\ t.inode = s.inode /\ t.handed = s.handed /\ t.strm = s.strm
      /\ t.fs.files = [s.fs.files EXCEPT ![o.id] = NewFile(s, p, mode)]
  BY DEF AddEntry, Typed, Shape
<1>3. FileFields \subseteq DOMAIN NewFile(s, p, mode)
  BY DEF NewFile, NoFile, FileFields
<1> HIDE DEF o
<1>4. Shape(t) /\ t.open = s.open \cup {o.id} /\ o.id \in 0 .. MaxFiles - 1 /\ o.id \notin s.open
  BY <1>1 DEF Fresh, Sound
<1>5. DOMAIN s.fs.files = 0 .. MaxFiles - 1 /\ s.open \subseteq 0 .. MaxFiles - 1
  BY DEF Typed, Disk
<1>6. DOMAIN t.fs.files = 0 .. MaxFiles - 1 /\ t.fs.files[o.id] = NewFile(s, p, mode)
  BY <1>2, <1>4, <1>5
<1>7. \A id \in 0 .. MaxFiles - 1 : id # o.id => t.fs.files[id] = s.fs.files[id]
  BY <1>2, <1>5
<1>8. \A id \in 0 .. MaxFiles - 1 : FileFields \subseteq DOMAIN t.fs.files[id]
  BY <1>3, <1>6, <1>7 DEF Typed, Disk
<1>9. \A id \in s.open : t.fs.files[id] = s.fs.files[id]
  BY <1>4, <1>5, <1>7
<1>10. \A k \in 1 .. MaxStreams : StreamLater(s, t, s.strm[k], t.strm[k])
  BY <1>2 DEF StreamLater
<1>11. t.open \subseteq 0 .. MaxFiles - 1
  BY <1>4, <1>5
<1> HIDE DEF t
<1>12. Later(s, t)
  BY <1>2, <1>4, <1>6, <1>8, <1>9, <1>10, <1>11, FilesLater
<1> QED  BY <1>1, <1>2, <1>6, <1>12 DEF t, o

(* open(2) makes a file or cuts one off.                                   *)
LEMMA PosixOpenLater ==
    ASSUME NEW s, Typed(s), NEW p, NEW f, PosixOpenError(s, p, f) = "none",
           p \in PathSpace \/ (~f.creat /\ ~f.trunc)
    PROVE  LET t == PosixOpen(s, p, f) IN
           /\ Later(s, t) /\ t.open = s.open /\ Exists(t, p)
           /\ ~f.creat /\ ~f.trunc => t = s
<1>1. HasParent(s, p) /\ (~Exists(s, p) => f.creat)
  BY DEF PosixOpenError
<1>2. CASE ~Exists(s, p)
  <2>1. PosixOpen(s, p, f) = MakeInode(s, p, FALSE) /\ p \in PathSpace /\ f.creat
    BY <1>1, <1>2 DEF PosixOpen
  <2> QED  BY <1>1, <1>2, <2>1, MadeLater
<1>3. CASE Exists(s, p) /\ f.trunc /\ ~IsDir(s, p)
  <2>1. PosixOpen(s, p, f) = SetData(s, s.names[p], <<>>) /\ p \in PathSpace
    BY <1>3 DEF PosixOpen
  <2>2. s.names[p] \in 1 .. Len(s.inode) /\ <<>> \in Seq(Bytes)
    BY <1>3, <2>1, LenProperties DEF Typed, Disk, Exists
  <2>3. Exists(SetData(s, s.names[p], <<>>), p)
    BY <1>3 DEF SetData, Exists, Typed, Shape
  <2> QED  BY <1>3, <2>1, <2>2, <2>3, DataLater
<1>4. CASE Exists(s, p) /\ ~(f.trunc /\ ~IsDir(s, p))
  <2>1. PosixOpen(s, p, f) = s
    BY <1>4 DEF PosixOpen
  <2> QED  BY <1>4, <2>1, LaterSelf
<1> QED  BY <1>2, <1>3, <1>4

(* What opening a file does to the drive.                                  *)
OpensLater(s, o, p) ==
    /\ Later(s, o.s) /\ s.open \subseteq o.s.open
    /\ o.id \in o.s.open \ s.open \/ o.id \notin 0 .. MaxFiles - 1
    /\ o.id \in o.s.open /\ p \in PathSpace => EntrySound(o.s, o.id)

LEMMA EntryLater ==
    ASSUME NEW s, Typed(s), Sound(s), Ready(s), OpenFiles(s) < MaxFiles, NEW p, NEW f, NEW mode,
           p \in PathSpace \/ (~f.creat /\ ~f.trunc)
    PROVE  LET o == OpenEntry(s, p, f, mode) IN
           /\ OpensLater(s, o, p)
           /\ /\ o.s.fault = "none" /\ ~f.write /\ ~f.creat /\ ~f.trunc /\ HasParent(s, p) /\ Exists(s, p)
              => o.id \in o.s.open /\ o.s.fs.files[o.id].ino = s.names[p]
<1>1. CASE PosixOpenError(s, p, f) # "none"
  <2> DEFINE o == OpenEntry(s, p, f, mode)
  <2>1. o.s = s /\ o.id \in Int /\ o.id < 0 /\ o.id \notin 0 .. MaxFiles - 1
    BY <1>1, ErrorsNegative, DriveConsts DEF OpenEntry
  <2>2. ~(~f.write /\ ~f.creat /\ ~f.trunc /\ HasParent(s, p) /\ Exists(s, p))
    BY <1>1 DEF PosixOpenError
  <2> HIDE DEF o
  <2>3. o.id \notin o.s.open
    BY <2>1, DriveConsts DEF Typed
  <2>4. OpensLater(s, o, p)
    BY <2>1, <2>3, LaterSelf DEF OpensLater
  <2> QED  BY <2>2, <2>4 DEF o
<1>2. CASE PosixOpenError(s, p, f) = "none"
  <2> DEFINE t == PosixOpen(s, p, f)  o == AddEntry(t, p, mode)
  <2>1. OpenEntry(s, p, f, mode) = o
    BY <1>2 DEF OpenEntry
  <2>2. Later(s, t) /\ t.open = s.open /\ Exists(t, p) /\ (~f.creat /\ ~f.trunc => t = s)
    BY <1>2, PosixOpenLater
  <2>3. Quiet(s, t)
    BY PosixQuiet DEF Sound
  <2> HIDE DEF t
  <2>4. Typed(t) /\ Sound(t) /\ Ready(t) /\ OpenFiles(t) < MaxFiles
    BY <2>2, <2>3, TableSame, QuietReady DEF Later, Sound, Quiet
  <2>0. CASE TableFull(t)
    <3>1. o.s = Faulted(t, "overrun") /\ o.id = MaxFiles
      BY <2>0, Zenon DEF AddEntry
    <3>2. Later(t, o.s) /\ o.s.open = t.open /\ o.s.fault = "overrun"
      BY <2>4, <3>1, FaultedLater
    <3>3. o.id \notin 0 .. MaxFiles - 1 /\ o.id \notin o.s.open
      BY <2>4, <3>1, <3>2, DriveConsts DEF Typed
    <3> HIDE DEF o
    <3>4. OpensLater(t, o, p)
      BY <3>2, <3>3 DEF OpensLater
    <3>5. OpensLater(s, o, p)
      BY <2>2, <3>4, LaterTwice DEF OpensLater
    <3> QED  BY <2>1, <3>2, <3>5
  <2> SUFFICES ASSUME ~TableFull(t)
               PROVE  /\ OpensLater(s, o, p)
                      /\ /\ o.s.fault = "none" /\ ~f.write /\ ~f.creat /\ ~f.trunc /\ HasParent(s, p) /\ Exists(s, p)
                         => o.id \in o.s.open /\ o.s.fs.files[o.id].ino = s.names[p]
    BY <2>0, <2>1
  <2>5. Later(t, o.s) /\ o.s.fs.files[o.id] = NewFile(t, p, mode) /\ o.s.inode = t.inode /\ Fresh(t, o)
    BY <2>4, AddedLater
  <2> HIDE DEF o
  <2>6. s.open \subseteq o.s.open /\ o.id \in o.s.open \ s.open
    BY <2>2, <2>5 DEF Fresh
  <2>7. Later(s, o.s)
    BY <2>2, <2>5, <2>6, LaterTwice
  <2>8. o.s.fs.files[o.id].ino = t.names[p] /\ o.s.fs.files[o.id].path = p
    BY <2>5 DEF NewFile, NoFile
  <2>9. p \in PathSpace => EntrySound(o.s, o.id)
    BY <2>2, <2>4, <2>5, <2>8, LenProperties DEF EntrySound, Typed, Disk, Exists
  <2>10. OpensLater(s, o, p)
    BY <2>6, <2>7, <2>9 DEF OpensLater
  <2> QED  BY <2>1, <2>2, <2>6, <2>8, <2>10
<1> QED  BY <1>1, <1>2

LEMMA OpensLaterAfter ==
    ASSUME NEW s, NEW t, NEW o, NEW p, Typed(s), Later(s, t), t.open = s.open, OpensLater(t, o, p)
    PROVE  OpensLater(s, o, p)
BY LaterTwice DEF OpensLater

(* guac_rdp_fs_open of a path the drive can hold, or for reading; one that *)
(* is there is opened for reading, if there is room.                       *)
LEMMA OpenLater ==
    ASSUME NEW s, Typed(s), Sound(s), Ready(s), NEW path, NEW access, NEW disp, NEW dirOpt,
           NormalizePath(Abs(path.comps)) \in PathSpace \cup {BadPath} \/ (disp = "OPEN" /\ access = "read")
    PROVE  LET p == NormalizePath(Abs(path.comps))
               o == Open(s, path, access, disp, dirOpt) IN
           /\ OpensLater(s, o, p) /\ (o.id \in o.s.open => p # BadPath)
           /\ /\ path.abs /\ p # BadPath /\ OpenFiles(s) < MaxFiles /\ disp = "OPEN" /\ access = "read"
              /\ o.s.fault = "none" /\ HasParent(s, p) /\ Exists(s, p)
              => o.id \in o.s.open /\ o.s.fs.files[o.id].ino = s.names[p]
<1> DEFINE p == NormalizePath(Abs(path.comps))
           f == Flags(access, disp)
           t == Superseded(s, p, disp)
           o == Open(s, path, access, disp, dirOpt)
           reading == disp = "OPEN" /\ access = "read"
<1>0. p \in PathSpace \cup {BadPath} \/ reading
  OBVIOUS
<1>1. reading => ~f.write /\ ~f.creat /\ ~f.trunc /\ t = s
  BY DEF Flags, Superseded
<1> HIDE DEF p
<1>2. CASE OpenRefused(s, path, disp) # 0
  <2>1. o.s = s /\ o.id = OpenRefused(s, path, disp)
    BY <1>2 DEF Open, p
  <2>2. o.id \in Int /\ o.id < 0 /\ o.id \notin 0 .. MaxFiles - 1
    BY <1>2, <2>1, DriveConsts DEF OpenRefused, ENFILE, ENOENT, ENOSYS
  <2>3. ~(path.abs /\ p # BadPath /\ OpenFiles(s) < MaxFiles /\ disp = "OPEN")
    BY <1>2, CountBounded DEF OpenRefused, Dispositions, p
  <2> HIDE DEF o
  <2>4. o.id \notin s.open
    BY <2>2, DriveConsts DEF Typed
  <2>5. OpensLater(s, o, p)
    BY <2>1, <2>2, <2>4, LaterSelf DEF OpensLater
  <2> QED  BY <2>1, <2>3, <2>4, <2>5 DEF o, p
<1>3. CASE OpenRefused(s, path, disp) = 0
  <2>1. p # BadPath /\ OpenFiles(s) < MaxFiles
    BY <1>3, CountBounded DEF OpenRefused, ENFILE, ENOENT, ENOSYS, p
  <2>2. p \in PathSpace \/ reading
    BY <1>0, <2>1
  <2>3. Later(s, t) /\ t.open = s.open /\ Sound(t) /\ OpenFiles(t) = OpenFiles(s) /\ Ready(t)
    <3>1. CASE t = s
      BY <3>1, LaterSelf
    <3>2. CASE t # s
      <4>1. t = Unlinked(s, p) /\ ~IsDir(s, p) /\ p \in PathSpace
        BY <1>1, <2>2, <3>2 DEF Superseded
      <4>2. Quiet(s, Unlinked(s, p))
        BY PosixQuiet DEF Sound
      <4> QED  BY <4>1, <4>2, UnlinkedLater, TableSame, QuietReady DEF Sound, Quiet
    <3> QED  BY <3>1, <3>2
  <2>4. ASSUME NEW u, Typed(u), Sound(u), Ready(u), OpenFiles(u) < MaxFiles, NEW g, p \in PathSpace \/ (~g.creat /\ ~g.trunc),
               DOMAIN g = {"write", "creat", "excl", "trunc"}
        PROVE  /\ OpensLater(u, OpenAgain(u, p, g, access), p)
               /\ /\ OpenAgain(u, p, g, access).s.fault = "none" /\ ~g.write /\ ~g.creat /\ ~g.trunc
                  /\ HasParent(u, p) /\ Exists(u, p)
                  => LET e == OpenAgain(u, p, g, access) IN e.id \in e.s.open /\ e.s.fs.files[e.id].ino = u.names[p]
    <3> DEFINE met == PosixOpenError(u, p, g) = "EISDIR"
               h == IF met THEN [g EXCEPT !.write = FALSE] ELSE g
               mode == IF met THEN "read" ELSE access
    <3>1. OpenAgain(u, p, g, access) = OpenEntry(u, p, h, mode)
      BY DEF OpenAgain
    <3>2. h.creat = g.creat /\ h.trunc = g.trunc /\ (~g.write => ~h.write)
      BY <2>4
    <3> HIDE DEF h, mode
    <3> QED  BY <2>4, <3>1, <3>2, EntryLater
  <2>5. DOMAIN f = {"write", "creat", "excl", "trunc"}
    BY DEF Flags
  <2>6. CASE dirOpt /\ f.creat
    <3>1. o = OpenDirectory(t, p, f, access)
      BY <1>3, <2>6 DEF Open, p
    <3>2. ~reading /\ p \in PathSpace
      BY <1>1, <2>2, <2>6
    <3> HIDE DEF o, t, f
    <3>3. CASE MkdirError(t, p, f.excl) # "none"
      <4>1. o.s = t /\ o.id \in Int /\ o.id < 0 /\ o.id \notin 0 .. MaxFiles - 1
        BY <3>1, <3>3, ErrorsNegative, DriveConsts DEF OpenDirectory
      <4>2. o.id \notin t.open
        BY <2>3, <4>1, DriveConsts DEF Later, Typed
      <4>3. OpensLater(s, o, p)
        BY <2>3, <4>1, <4>2 DEF OpensLater
      <4> QED  BY <2>1, <3>2, <4>3 DEF o, p
    <3>4. CASE MkdirError(t, p, f.excl) = "none"
      <4> DEFINE u == IF Exists(t, p) THEN t ELSE MakeInode(t, p, TRUE)
                 g == [f EXCEPT !.creat = FALSE, !.excl = FALSE]
      <4>1. o = OpenAgain(u, p, g, access)
        BY <3>1, <3>4 DEF OpenDirectory
      <4>2. HasParent(t, p)
        BY <3>4 DEF MkdirError
      <4>3. Later(t, u) /\ u.open = t.open
        BY <2>3, <3>2, <4>2, MadeLater, LaterSelf DEF Later
      <4>4. Quiet(t, u)
        BY <2>3, PosixQuiet, QuietSelf DEF Sound
      <4>5. DOMAIN g = {"write", "creat", "excl", "trunc"}
        BY <2>5
      <4> HIDE DEF u, g
      <4>6. Typed(u) /\ Sound(u) /\ Ready(u) /\ OpenFiles(u) < MaxFiles
        BY <2>1, <2>3, <4>3, <4>4, TableSame, QuietReady DEF Later, Sound, Quiet
      <4>7. OpensLater(u, o, p)
        BY <2>4, <3>2, <4>1, <4>5, <4>6
      <4>8. OpensLater(s, o, p)
        BY <2>3, <4>3, <4>7, OpensLaterAfter DEF Later
      <4> QED  BY <2>1, <3>2, <4>8 DEF o, p
    <3> QED  BY <3>3, <3>4
  <2>7. CASE ~(dirOpt /\ f.creat)
    <3>1. o = OpenAgain(t, p, f, access)
      BY <1>3, <2>7 DEF Open, p
    <3> HIDE DEF o, t, f
    <3>2. Typed(t) /\ Ready(t) /\ OpenFiles(t) < MaxFiles
      BY <2>1, <2>3 DEF Later
    <3>3. p \in PathSpace \/ (~f.creat /\ ~f.trunc)
      BY <1>1, <2>2
    <3>4. /\ OpensLater(t, o, p)
          /\ o.s.fault = "none" /\ ~f.write /\ ~f.creat /\ ~f.trunc /\ HasParent(t, p) /\ Exists(t, p) =>
                o.id \in o.s.open /\ o.s.fs.files[o.id].ino = t.names[p]
      BY <2>3, <2>4, <2>5, <3>1, <3>2, <3>3
    <3>5. OpensLater(s, o, p)
      BY <2>3, <3>4, OpensLaterAfter
    <3> QED  BY <2>1, <1>1, <3>4, <3>5 DEF o, p
  <2> QED  BY <2>1, <2>6, <2>7 DEF p
<1> QED  BY <1>2, <1>3

(* An entry stays what it is.                                              *)
LEMMA EntryStays ==
    ASSUME NEW s, NEW t, Typed(s), Later(s, t), NEW id \in s.open, EntrySound(s, id)
    PROVE  EntrySound(t, id)
<1>1. Len(s.inode) \in Nat /\ Len(t.inode) \in Nat
  BY LenProperties DEF Later, Typed, Disk
<1> QED  BY <1>1 DEF EntrySound, Later

(* A step that opens nothing.                                              *)
LEMMA SameOpenKept ==
    ASSUME NEW s, NEW t, KeptInv(s), Later(s, t), DriveInv(t), t.open \subseteq s.open
    PROVE  KeptInv(t)
BY LaterKept

LEMMA ReplyKept == ASSUME NEW s, KeptInv(s), NEW r  PROVE KeptInv([s EXCEPT !.reply = r])
<1> DEFINE t == [s EXCEPT !.reply = r]
<1>1. Later(s, t) /\ DriveInv(t)
  BY SmallLater, ReplySound DEF KeptInv
<1>2. t.open = s.open
  BY DEF KeptInv, Typed, Shape
<1> HIDE DEF t
<1>3. KeptInv(t)
  BY <1>1, <1>2, SameOpenKept
<1> QED  BY <1>3 DEF t

(* A quiet step of the drive.                                              *)
LEMMA QuietKept == ASSUME NEW s, KeptInv(s), NEW t, Quiet(s, t), Later(s, t)  PROVE KeptInv(t)
<1>1. DriveInv(t) /\ t.open = s.open
  BY QuietSound DEF KeptInv, Quiet, SameTable
<1> QED  BY <1>1, SameOpenKept

(* A stream is begun for a file that was opened.                           *)
LEMMA BegunKept ==
    ASSUME NEW s, KeptInv(s), FreeSlots(s) # {}, NEW o, NEW p \in PathSpace, Fresh(s, o), OpensLater(s, o, p),
           NEW v, StreamFields \subseteq DOMAIN v, v.kind \in Active, v.id = o.id, v.off = 0, v.got = <<>>,
           v.src = IF v.kind = "down" THEN o.s.fs.files[o.id].ino ELSE 0
    PROVE  LET t == [o.s EXCEPT !.strm[NextSlot(o.s)] = v] IN
           KeptInv(t) /\ \E k \in 1 .. MaxStreams : t.strm[k].src = v.src
<1> DEFINE n == NextSlot(o.s)
           t == [o.s EXCEPT !.strm[n] = v]
<1>1. DriveInv(t)
  BY StreamBegins DEF KeptInv
<1>2. FreeSlots(o.s) = FreeSlots(s)
  BY DEF FreeSlots, Fresh, SameHolders
<1>3. n \in 1 .. MaxStreams /\ s.strm[n].kind = "none"
  BY <1>2, SlotFree DEF FreeSlots
<1>4. Typed(o.s) /\ Later(s, o.s) /\ EntrySound(o.s, o.id) /\ o.s.open = s.open \cup {o.id} /\ Typed(s)
  BY DEF OpensLater, Later, Fresh, KeptInv
<1> HIDE DEF n
<1>5. /\ DOMAIN t = DOMAIN o.s /\ t.fs = o.s.fs /\ t.open = o.s.open /\ t.handed = s.handed
      /\ t.inode = o.s.inode /\ t.names = o.s.names /\ t.strm = [o.s.strm EXCEPT ![n] = v]
  BY <1>4 DEF Typed, Shape, Later
<1> HIDE DEF t
<1>6. DOMAIN o.s.strm = 1 .. MaxStreams
  BY <1>4 DEF Typed, Shape
<1>7. t.strm[n] = v /\ \A k \in (1 .. MaxStreams) \ {n} : t.strm[k] = o.s.strm[k]
  BY <1>3, <1>5, <1>6
<1>8. v.src \in 0 .. Len(t.inode) /\ (v.kind = "down" => v.src # 0)
  <2>1. Len(o.s.inode) \in Nat /\ o.s.fs.files[o.id].ino \in 1 .. Len(o.s.inode)
    BY <1>4, LenProperties DEF Typed, Disk, EntrySound
  <2> QED  BY <1>5, <2>1
<1>9. Typed(t)
  <2>1. Rooted(t)
    BY <1>4, <1>5 DEF Typed, Disk, Rooted, IsDir, Exists
  <2>2. Disk(t)
    BY <1>4, <1>5, <2>1 DEF Typed, Disk
  <2>3. \A k \in 1 .. MaxStreams : t.strm[k].src \in 0 .. Len(t.inode)
    BY <1>4, <1>5, <1>7, <1>8 DEF Typed
  <2> QED  BY <1>1, <1>4, <1>5, <2>2, <2>3 DEF Typed, DriveInv
<1>10. ASSUME NEW i \in t.handed  PROVE i # 0 /\ \E k \in 1 .. MaxStreams : t.strm[k].src = i
  <2>1. i # 0 /\ \E k \in 1 .. MaxStreams : s.strm[k].src = i
    BY <1>5 DEF KeptInv, HandedOver
  <2>2. PICK k \in 1 .. MaxStreams : s.strm[k].src = i
    BY <2>1
  <2>3. s.strm[n].src = 0
    BY <1>3 DEF KeptInv, StreamSound
  <2>4. k # n /\ t.strm[k].src = i
    BY <1>4, <1>7, <2>1, <2>2, <2>3 DEF Later, StreamLater
  <2> QED  BY <2>1, <2>4
<1>11. ASSUME NEW id \in t.open  PROVE EntrySound(t, id)
  <2>1. EntrySound(o.s, id)
    BY <1>4, <1>5, EntryStays DEF KeptInv
  <2> QED  BY <1>5, <2>1 DEF EntrySound
<1>12. ASSUME NEW k \in 1 .. MaxStreams  PROVE StreamSound(t, t.strm[k])
  <2>1. CASE k = n
    <3>1. v.src # 0 => IsPrefix(<<>>, t.inode[v.src].data)
      <4>1. ASSUME v.src # 0  PROVE IsPrefix(<<>>, t.inode[v.src].data)
        <5>1. t.inode \in Seq(Inodes) /\ Len(t.inode) \in Nat
          BY <1>9, LenProperties DEF Typed, Disk
        <5>2. t.inode[v.src] \in Inodes
          BY <1>8, <4>1, <5>1, ElementOfSeq
        <5>3. t.inode[v.src].data \in Seq(Bytes)
          BY <5>2 DEF Inodes
        <5> QED  BY <5>3, PrefixEmpty
      <4> QED  BY <4>1
    <3>2. 0 \in Nat /\ <<>> \in Seq(Bytes) /\ Len(<<>>) = 0
      OBVIOUS
    <3> QED  BY <1>5, <1>7, <1>8, <2>1, <3>1, <3>2 DEF StreamSound, Active
  <2>2. CASE k # n
    <3> DEFINE w == s.strm[k]  x == o.s.strm[k]
    <3>1. StreamSound(s, w) /\ StreamLater(s, o.s, w, x) /\ t.strm[k] = x
      BY <1>4, <1>7, <2>2 DEF KeptInv, Later
    <3>2. w.kind = "down" => w.id \in s.open
      BY DEF KeptInv, DriveInv, Holders, HeldBy, Active
    <3>3. w.kind = "down" => t.fs.files[w.id].ino = s.fs.files[w.id].ino
      BY <1>4, <1>5, <3>2 DEF Later
    <3> HIDE DEF w, x
    <3>4. StreamSound(t, x)
      BY <1>5, <3>1, <3>3 DEF StreamSound, StreamLater
    <3> QED  BY <3>1, <3>4
  <2> QED  BY <2>1, <2>2
<1>13. KeptInv(t)
  BY <1>1, <1>9, <1>10, <1>11, <1>12 DEF KeptInv, HandedOver
<1> QED  BY <1>3, <1>7, <1>13 DEF t, n

(* Nothing was opened.                                                     *)
LEMMA NotOpenedKept ==
    ASSUME NEW s, KeptInv(s), NEW o, NEW p, NotOpened(s, o), OpensLater(s, o, p)
    PROVE  KeptInv(o.s)
<1>1. DriveInv(o.s) /\ o.s.open = s.open
  BY AlikeSound DEF NotOpened, Alike, KeptInv
<1> QED  BY <1>1, SameOpenKept DEF OpensLater

(* The program is at an end.                                               *)
LEMMA FaultedKept ==
    ASSUME NEW s, KeptInv(s), NEW what, Alike(s, Faulted(s, what))
    PROVE  KeptInv(Faulted(s, what)) /\ Faulted(s, what).fault = what /\ Faulted(s, what).handed = s.handed
<1> DEFINE t == Faulted(s, what)
<1>1. Later(s, t) /\ t.open = s.open /\ t.fault = what /\ t.handed = s.handed
  BY FaultedLater DEF KeptInv
<1> HIDE DEF t
<1>2. DriveInv(t)
  BY AlikeSound DEF KeptInv, t
<1>3. KeptInv(t)
  BY <1>1, <1>2, SameOpenKept
<1> QED  BY <1>1, <1>3 DEF t

(* guac_rdp_download_to_user: a file whose name still leads to it gets a   *)
(* stream.                                                                 *)
LEMMA DownloadBegins ==
    ASSUME NEW s, KeptInv(s), Steady(s), FreeSlots(s) # {}, NEW p \in PathSpace, NEW none \in BOOLEAN
    PROVE  LET d == DownloadToUser(s, p, none) IN
           /\ KeptInv(d) /\ d.handed = s.handed
           /\ d.fault = "none" /\ s.owner /\ ~DisableDownload /\ OpenFiles(s) < MaxFiles /\ Exists(s, p) =>
                 \E k \in 1 .. MaxStreams : d.strm[k].src = s.names[p]
<1> DEFINE o == Open(s, Abs(p), "read", "OPEN", FALSE)  d == DownloadToUser(s, p, none)
<1>0. Typed(s) /\ Sound(s) /\ Ready(s) /\ DriveInv(s)
  BY SteadyReady DEF KeptInv, DriveInv, Sound
<1>1. CASE ~s.owner \/ DisableDownload
  BY <1>1 DEF DownloadToUser
<1>2. CASE ~(~s.owner \/ DisableDownload)
  <2>1. d = BeginDownload(s, o, none)
    BY <1>2 DEF DownloadToUser
  <2>2. Abs(p).comps = p /\ Abs(p).abs /\ NormalizePath(Abs(Abs(p).comps)) = p /\ p # BadPath
    BY DrivePaths DEF Abs
  <2>3. /\ OpensLater(s, o, p)
        /\ o.s.fault = "none" /\ OpenFiles(s) < MaxFiles /\ HasParent(s, p) /\ Exists(s, p) =>
              o.id \in o.s.open /\ o.s.fs.files[o.id].ino = s.names[p]
    <3> DEFINE path == Abs(p)  q == NormalizePath(Abs(path.comps))
    <3>1. /\ OpensLater(s, o, q)
          /\ path.abs /\ q # BadPath /\ OpenFiles(s) < MaxFiles /\ o.s.fault = "none" /\ HasParent(s, q) /\ Exists(s, q) =>
                o.id \in o.s.open /\ o.s.fs.files[o.id].ino = s.names[q]
      BY <1>0, OpenLater
    <3> QED  BY <2>2, <3>1
  <2>4. Opens(s, o)
    BY <1>0, FileOpens
  <2>5. Exists(s, p) => HasParent(s, p)
    BY <1>0 DEF Typed, Disk, Rooted, HasParent
  <2> HIDE DEF o
  <2>6. CASE NotOpened(s, o)
    <3>1. d = o.s
      BY <2>1, <2>6 DEF BeginDownload, NotOpened, ValidId
    <3>2. o.id \notin o.s.open
      BY <2>3, <2>6, DriveConsts DEF OpensLater, Later, Typed, NotOpened
    <3> HIDE DEF d
    <3>3. KeptInv(d)
      BY <2>3, <2>6, <3>1, NotOpenedKept
    <3>4. d.handed = s.handed
      BY <2>3, <3>1 DEF OpensLater, Later
    <3> QED  BY <2>3, <2>5, <3>1, <3>2, <3>3, <3>4 DEF d
  <2>7. CASE Fresh(s, o) /\ none
    <3>1. d = Faulted(s, "null_stream")
      BY <2>1, <2>7, DriveConsts, Zenon DEF BeginDownload, Fresh, ValidId
    <3>2. Alike(s, Faulted(s, "null_stream"))
      BY <1>0, NullStream
    <3>3. KeptInv(d) /\ d.fault = "null_stream" /\ d.handed = s.handed
      BY <3>1, <3>2, FaultedKept
    <3> QED  BY <3>3
  <2>8. CASE Fresh(s, o) /\ ~none
    <3> DEFINE v == [NoStream EXCEPT !.kind = "down", !.id = o.id, !.src = o.s.fs.files[o.id].ino]
    <3>1. d = [o.s EXCEPT !.strm[NextSlot(o.s)] = v]
      BY <2>1, <2>8, DriveConsts, Zenon DEF BeginDownload, Fresh, ValidId
    <3>2. /\ StreamFields \subseteq DOMAIN v /\ v.kind = "down" /\ v.id = o.id /\ v.off = 0 /\ v.got = <<>>
          /\ v.src = o.s.fs.files[o.id].ino
      BY DEF NoStream, StreamFields
    <3> HIDE DEF v, d
    <3>3. KeptInv(d) /\ \E k \in 1 .. MaxStreams : d.strm[k].src = v.src
      <4>1. v.kind \in Active
        BY <3>2 DEF Active
      <4> QED  BY <2>3, <2>8, <3>1, <3>2, <4>1, BegunKept
    <3>4. d.handed = s.handed /\ d.fault = o.s.fault
      BY <2>3, <3>1 DEF OpensLater, Later, Typed, Shape
    <3> QED  BY <2>3, <2>5, <3>2, <3>3, <3>4 DEF d
  <2> QED  BY <2>4, <2>6, <2>7, <2>8 DEF Opens
<1> QED  BY <1>1, <1>2

(* Steps on one file of the table.                                         *)
LEMMA FileStepsLater ==
    ASSUME NEW s, KeptInv(s), NEW id \in s.open
    PROVE  /\ Later(s, DeleteFile(s, id).s)
           /\ \A path : NormalizePath(path) \in PathSpace \cup {BadPath} => Later(s, RenameFile(s, id, path).s)
           /\ \A len \in Nat : Later(s, TruncateFile(s, id, len).s)
           /\ \A off \in Nat, v \in Bytes : Later(s, WriteFile(s, id, off, v))
<1> DEFINE f == s.fs.files[id]
<1>0. Typed(s) /\ f.path \in PathSpace /\ f.ino \in 1 .. Len(s.inode) /\ EntrySound(s, id)
  BY DEF KeptInv, EntrySound
<1>1. Later(s, DeleteFile(s, id).s)
  <2>1. CASE DeleteFile(s, id).s = s
    BY <1>0, <2>1, LaterSelf
  <2>2. CASE DeleteFile(s, id).s # s
    <3>1. DeleteFile(s, id).s = Unlinked(s, f.path) /\ (~IsDir(s, f.path) \/ Children(s, f.path) = {})
      BY <2>2 DEF DeleteFile
    <3> HIDE DEF f
    <3> QED  BY <1>0, <3>1, UnlinkedLater
  <2> QED  BY <2>1, <2>2
<1>2. ASSUME NEW path, NormalizePath(path) \in PathSpace \cup {BadPath}  PROVE Later(s, RenameFile(s, id, path).s)
  <2> DEFINE q == NormalizePath(path)
  <2>1. CASE RenameFile(s, id, path).s = s
    BY <1>0, <2>1, LaterSelf
  <2>2. CASE RenameFile(s, id, path).s # s
    <3>1. RenameFile(s, id, path).s = PosixRename(s, f.path, q) /\ q # BadPath /\ PosixRenameError(s, f.path, q) = "none"
      BY <2>2 DEF RenameFile
    <3>2. f.path = q \/ (HasParent(s, q) /\ ~IsPrefix(f.path, q))
      BY <3>1 DEF PosixRenameError
    <3> HIDE DEF f
    <3> QED  BY <1>0, <1>2, <3>1, <3>2, RenamedLater
  <2> QED  BY <2>1, <2>2
<1>3. s.inode[f.ino].data \in Seq(Bytes) /\ Len(s.inode[f.ino].data) \in Nat
  <2>1. s.inode[f.ino] \in Inodes
    BY <1>0, ElementOfSeq DEF Typed, Disk
  <2> HIDE DEF f
  <2>2. s.inode[f.ino].data \in Seq(Bytes)
    BY <2>1 DEF Inodes
  <2> QED  BY <2>2, LenProperties
<1> DEFINE data == s.inode[f.ino].data
<1>4. \A x \in Seq(Bytes) : Later(s, SetData(s, f.ino, x)) /\ SetData(s, f.ino, x).open = s.open
  BY <1>0, DataLater
<1> HIDE DEF data
<1>5. data \in Seq(Bytes) /\ Len(data) \in Nat /\ \A i \in 1 .. Len(data) : data[i] \in Bytes
  BY <1>3, ElementOfSeq DEF data
<1>6. 0 \in Bytes
  BY DEF Bytes
<1>7. ASSUME NEW len \in Nat  PROVE Later(s, TruncateFile(s, id, len).s)
  <2> DEFINE x == [i \in 1 .. len |-> IF i <= Len(data) THEN data[i] ELSE 0]
  <2>1. CASE TruncateFile(s, id, len).s = s
    BY <1>0, <2>1, LaterSelf
  <2>2. CASE TruncateFile(s, id, len).s # s
    <3>1. TruncateFile(s, id, len).s = SetData(s, f.ino, x)
      BY <2>2 DEF TruncateFile, data
    <3>2. \A i \in 1 .. len : (IF i <= Len(data) THEN data[i] ELSE 0) \in Bytes
      BY <1>5, <1>6
    <3>3. x \in Seq(Bytes)
      BY <3>2, IsASeq
    <3> QED  BY <1>4, <3>1, <3>3
  <2> QED  BY <2>1, <2>2
<1>8. ASSUME NEW off \in Nat, NEW v \in Bytes  PROVE Later(s, WriteFile(s, id, off, v))
  <2> DEFINE n == IF off + 1 > Len(data) THEN off + 1 ELSE Len(data)
             x == [i \in 1 .. n |-> IF i = off + 1 THEN v ELSE IF i <= Len(data) THEN data[i] ELSE 0]
             w == SetData(s, f.ino, x)
  <2>1. n \in Nat /\ \A i \in 1 .. n : (IF i = off + 1 THEN v ELSE IF i <= Len(data) THEN data[i] ELSE 0) \in Bytes
    BY <1>5, <1>6
  <2>2. WriteFile(s, id, off, v) = [w EXCEPT !.fs.files[id].written = @ + 1]
    BY DEF WriteFile, data
  <2> HIDE DEF n
  <2>3. x \in Seq(Bytes)
    BY <2>1, IsASeq
  <2> HIDE DEF x
  <2>4. Later(s, w) /\ w.open = s.open
    BY <1>4, <2>3
  <2> HIDE DEF w
  <2>5. \A y : Later(w, [w EXCEPT !.fs.files[id].written = y])
    BY <2>4, SmallLater DEF Later
  <2>6. Later(w, WriteFile(s, id, off, v))
    BY <2>2, <2>5
  <2> QED  BY <1>0, <2>4, <2>6, LaterTwice
<1> QED  BY <1>1, <1>2, <1>7, <1>8

(* A step that changes only who is said to hold a file, and the reply.     *)
LEMMA HoldersLater ==
    ASSUME NEW s, Typed(s), NEW r, NEW x
    PROVE  LET t == [s EXCEPT !.reply = r, !.srv = x] IN Later(s, t) /\ t.open = s.open
<1> DEFINE t == [s EXCEPT !.reply = r, !.srv = x]
<1>1. /\ Shape(t) /\ t.names = s.names /\ t.inode = s.inode /\ t.handed = s.handed /\ t.strm = s.strm
      /\ t.fs = s.fs /\ t.open = s.open
  BY DEF Typed, Shape
<1> HIDE DEF t
<1>2. Later(s, t)
  BY <1>1, FilesLater DEF Typed, Disk, StreamLater
<1> QED  BY <1>1, <1>2 DEF t

(* guac_rdpdr_fs_process_create                                            *)
LEMMA CreateKept ==
    ASSUME NEW s, KeptInv(s), Steady(s), NEW path, NEW access, NEW disp, NEW dirOpt,
           NormalizePath(Abs(path.comps)) \in PathSpace \cup {BadPath}
    PROVE  KeptInv(ProcessCreate(s, path, access, disp, dirOpt))
<1> DEFINE o == Open(s, path, access, disp, dirOpt)  p == NormalizePath(Abs(path.comps))
           t == ProcessCreate(s, path, access, disp, dirOpt)
<1>0. Typed(s) /\ Sound(s) /\ DriveInv(s) /\ Ready(s)
  BY SteadyReady DEF KeptInv, DriveInv, Sound
<1>1. Opens(s, o) /\ OpensLater(s, o, p) /\ (o.id \in o.s.open => p # BadPath)
  BY <1>0, FileOpens, OpenLater
<1>2. DriveInv(t) /\ t = Created(o)
  BY <1>0, CreateRequestSound DEF ProcessCreate
<1>3. p \in PathSpace \cup {BadPath}
  OBVIOUS
<1> HIDE DEF o, t, p
<1>4. CASE NotOpened(s, o)
  <2>1. t = [o.s EXCEPT !.reply = Coded(o.id)]
    BY <1>2, <1>4 DEF Created, NotOpened, ValidId
  <2> QED  BY <1>1, <1>4, <2>1, NotOpenedKept, ReplyKept DEF t
<1>5. CASE Fresh(s, o)
  <2> DEFINE u == IF o.s.fs.files[o.id].path = <<>> /\ ~DisableDownload THEN MakeDownload(o.s) ELSE o.s
  <2>1. t = [u EXCEPT !.reply = Coded(o.id), !.srv = @ \cup {o.id}]
    BY <1>2, <1>5, DriveConsts DEF Created, Fresh, ValidId
  <2>2. Typed(o.s) /\ Sound(o.s) /\ Ready(o.s) /\ o.s.open = s.open \cup {o.id} /\ Later(s, o.s)
    BY <1>1, <1>5 DEF OpensLater, Later, Fresh
  <2>3. Later(o.s, MakeDownload(o.s)) /\ MakeDownload(o.s).open = o.s.open
    <3> DEFINE down == Abs(<<"Download">>)  e == Open(o.s, down, "read", "OPEN_IF", TRUE)  w == CloseFile(e.s, e.id)
    <3>1. NormalizePath(Abs(down.comps)) \in PathSpace \cup {BadPath}
      BY DrivePaths DEF Abs
    <3>2. MakeDownload(o.s) = Closed(e)
      BY DEF MakeDownload
    <3> HIDE DEF down
    <3>3. Opens(o.s, e) /\ OpensLater(o.s, e, NormalizePath(Abs(down.comps)))
      BY <2>2, <3>1, FileOpens, OpenLater
    <3>4. Closed(e).open = o.s.open
      BY <2>2, <3>3, OpenedAndClosed DEF Alike
    <3> HIDE DEF e, w
    <3>5. Later(e.s, w)
      BY <3>3, SmallLater DEF OpensLater, Later, w
    <3>6. Later(o.s, w) /\ Later(o.s, e.s)
      BY <2>2, <3>3, <3>5, LaterTwice DEF OpensLater
    <3> QED  BY <3>2, <3>4, <3>6 DEF Closed, w
  <2>4. Later(o.s, u) /\ u.open = o.s.open
    BY <2>2, <2>3, LaterSelf
  <2> HIDE DEF u
  <2>5. Later(u, t) /\ t.open = u.open
    <3>1. PICK x : t = [u EXCEPT !.reply = Coded(o.id), !.srv = x]
      BY <2>1
    <3>2. Typed(u)
      BY <2>4 DEF Later
    <3>3. \A r : Later(u, [u EXCEPT !.reply = r, !.srv = x]) /\ [u EXCEPT !.reply = r, !.srv = x].open = u.open
      BY <3>2, HoldersLater
    <3> QED  BY <3>1, <3>3
  <2>6. Later(o.s, t)
    BY <2>2, <2>4, <2>5, LaterTwice
  <2>7. Later(s, t)
    BY <1>0, <2>2, <2>6, LaterTwice
  <2>8. EntrySound(t, o.id)
    BY <1>1, <1>3, <2>2, <2>6, EntryStays DEF OpensLater
  <2>9. \A id \in t.open \ s.open : EntrySound(t, id)
    BY <2>2, <2>4, <2>5, <2>8
  <2>10. KeptInv(t)
    BY <1>2, <2>7, <2>9, LaterKept
  <2> QED  BY <2>10 DEF t
<1> QED  BY <1>1, <1>4, <1>5 DEF Opens

(* guac_rdpdr_fs_process_close                                             *)
LEMMA CloseKept ==
    ASSUME NEW s, KeptInv(s), Steady(s), FreeSlots(s) # {}, NEW id \in s.srv \cup {MaxFiles}, NEW none \in BOOLEAN
    PROVE  KeptInv(ProcessClose(s, id, none))
<1>0. Typed(s) /\ Sound(s) /\ DriveInv(s)
  BY DEF KeptInv, DriveInv, Sound
<1>1. CASE ~ValidId(id)
  BY <1>1, ReplyKept DEF ProcessClose
<1>2. CASE ValidId(id)
  <2> DEFINE f == s.fs.files[id]
             d == DownloadToUser(s, f.path, none)
             u == CloseDownloads(s, id, none)
             w == CloseFile(u, id)
             t == ProcessClose(s, id, none)
  <2>1. id \in s.srv /\ id \in s.open /\ EntrySound(s, id) /\ f.path \in PathSpace /\ f.ino # 0
    <3>1. id \in s.srv /\ id \in s.open
      BY <1>0, <1>2, DriveConsts DEF ValidId, DriveInv, Holders
    <3>2. EntrySound(s, id) /\ Len(s.inode) \in Nat
      BY <1>0, <3>1, LenProperties DEF KeptInv, Typed, Disk
    <3> QED  BY <3>1, <3>2 DEF EntrySound
  <2>2. KeptInv(d) /\ d.handed = s.handed /\ d.srv = s.srv
    BY <1>0, <2>1, DownloadBegins, DownloadSound
  <2>3. d.fault = "none" /\ HandsOver(s, id) => \E k \in 1 .. MaxStreams : d.strm[k].src = f.ino
    <3>1. HandsOver(s, id) => /\ s.owner /\ ~DisableDownload /\ OpenFiles(s) < MaxFiles /\ s.names[f.path] = f.ino
                              /\ Exists(s, f.path)
      BY <2>1 DEF HandsOver, GoesToOwner, Exists
    <3> QED  BY <2>1, <3>1, DownloadBegins
  <2>4. /\ KeptInv(u) /\ u.handed = s.handed /\ u.srv = s.srv
        /\ u.fault = "none" /\ HandsOver(s, id) => \E k \in 1 .. MaxStreams : u.strm[k].src = f.ino
    <3>1. CASE GoesToOwner(s, id) /\ d.fault = "none"
      <4>1. u = DeleteFile(d, id).s
        BY <3>1 DEF CloseDownloads
      <4>2. id \in d.open
        BY <2>1, <2>2 DEF KeptInv, DriveInv, Holders
      <4> HIDE DEF d, f
      <4>3. Later(d, DeleteFile(d, id).s) /\ Quiet(d, DeleteFile(d, id).s)
        BY <2>2, <4>2, FileStepsLater, QuietSteps DEF KeptInv, Typed
      <4> HIDE DEF u
      <4>4. KeptInv(u) /\ Later(d, u) /\ Quiet(d, u)
        BY <2>2, <4>1, <4>3, QuietKept
      <4> QED  BY <2>2, <2>3, <3>1, <4>4 DEF Later, StreamLater, Quiet, SameHolders
    <3>2. CASE GoesToOwner(s, id) /\ d.fault # "none"
      <4>1. u = d
        BY <3>2 DEF CloseDownloads
      <4> QED  BY <2>2, <3>2, <4>1
    <3>3. CASE ~GoesToOwner(s, id)
      <4>1. u = s /\ ~HandsOver(s, id)
        BY <3>3 DEF CloseDownloads, HandsOver
      <4> QED  BY <4>1
    <3> QED  BY <3>1, <3>2, <3>3
  <2>5. DriveInv(t)
    BY <1>0, CloseRequestSound
  <2>a. CASE u.fault # "none"
    <3>1. t = u
      BY <1>2, <2>a DEF ProcessClose
    <3> HIDE DEF u, t
    <3>2. KeptInv(t)
      BY <2>4, <3>1
    <3> QED  BY <3>2 DEF t
  <2> SUFFICES ASSUME u.fault = "none"  PROVE KeptInv(t)
    BY <2>a
  <2>6. PICK r, x, z : t = [w EXCEPT !.reply = r, !.srv = x,
                            !.handed = IF HandsOver(s, id) THEN @ \cup {f.ino} ELSE @, !.removed = z]
    <3>1. t = CloseDone(s, u, id)
      BY <1>2 DEF ProcessClose
    <3> HIDE DEF t, u
    <3> QED  BY <3>1 DEF CloseDone
  <2> HIDE DEF u, t, f
  <2>7. Later(u, w)
    BY <2>4, SmallLater DEF KeptInv
  <2>8. w.open = u.open \ {id} /\ Typed(w)
    BY <1>2, <2>4, <2>7 DEF CloseFile, ValidId, KeptInv, Typed, Shape, Later
  <2> HIDE DEF w
  <2>10. /\ t.handed = w.handed \cup (IF HandsOver(s, id) THEN {f.ino} ELSE {})
         /\ t.names = w.names /\ t.inode = w.inode /\ t.strm = w.strm /\ t.fs = w.fs /\ t.open = w.open
    BY <2>6, <2>8 DEF Typed, Shape
  <2>11. Typed(t)
    <3>1. Rooted(t)
      BY <2>8, <2>10 DEF Typed, Disk, Rooted, IsDir, Exists
    <3>2. Disk(t)
      BY <2>8, <2>10, <3>1 DEF Typed, Disk
    <3> QED  BY <2>5, <2>8, <2>10, <3>2 DEF Typed, DriveInv
  <2>12. ASSUME NEW i \in t.handed  PROVE i # 0 /\ \E k \in 1 .. MaxStreams : t.strm[k].src = i
    <3>1. i # 0 /\ \E k \in 1 .. MaxStreams : u.strm[k].src = i
      BY <2>1, <2>4, <2>7, <2>10 DEF KeptInv, HandedOver, Later
    <3> QED  BY <2>7, <2>10, <3>1 DEF Later, StreamLater
  <2>13. ASSUME NEW n \in t.open  PROVE EntrySound(t, n)
    <3>1. EntrySound(w, n)
      BY <2>4, <2>7, <2>8, <2>10, EntryStays DEF KeptInv
    <3> QED  BY <2>10, <3>1 DEF EntrySound
  <2>14. ASSUME NEW k \in 1 .. MaxStreams  PROVE StreamSound(t, t.strm[k])
    <3> DEFINE v == u.strm[k]  y == w.strm[k]
    <3>1. StreamSound(u, v) /\ StreamLater(u, w, v, y) /\ t.strm[k] = y
      BY <2>4, <2>7, <2>10 DEF KeptInv, Later
    <3>2. v.kind = "down" => v.id \in u.open
      BY <2>4 DEF KeptInv, DriveInv, Holders, HeldBy, Active
    <3>3. v.kind = "down" => t.fs.files[v.id].ino = u.fs.files[v.id].ino
      BY <2>7, <2>10, <3>2 DEF Later
    <3> HIDE DEF v, y
    <3>4. StreamSound(t, y)
      BY <2>10, <3>1, <3>3 DEF StreamSound, StreamLater
    <3> QED  BY <3>1, <3>4
  <2>15. KeptInv(t)
    BY <2>5, <2>11, <2>12, <2>13, <2>14 DEF KeptInv, HandedOver
  <2> QED  BY <2>15
<1> QED  BY <1>1, <1>2

(* guac_rdpdr_fs_process_query_directory                                   *)
LEMMA QueryKept ==
    ASSUME NEW s, KeptInv(s), Steady(s), NEW id, NEW class, NEW initial, NEW pat
    PROVE  KeptInv(ProcessQueryDirectory(s, id, class, initial, pat))
<1>1. ASSUME NEW u, KeptInv(u), Ready(u), NEW left  PROVE KeptInv(QueryNext(u, id, class, left))
  <2>1. ASSUME NEW e  PROVE KeptInv(SetDirStream(u, id, e)) /\ Ready(SetDirStream(u, id, e))
    <3>1. Later(u, SetDirStream(u, id, e)) /\ Quiet(u, SetDirStream(u, id, e))
      BY <1>1, SmallLater, QuietSteps DEF KeptInv, Typed
    <3> QED  BY <1>1, <3>1, QuietKept, QuietReady
  <2>2. ASSUME NEW w, KeptInv(w), Ready(w), NEW path
        PROVE  KeptInv(QueryEntry(Open(w, path, "read", "OPEN", FALSE), class))
    <3> DEFINE o == Open(w, path, "read", "OPEN", FALSE)  t == CloseFile(o.s, o.id)  p == NormalizePath(Abs(path.comps))
    <3>0. Typed(w) /\ Sound(w) /\ DriveInv(w)
      BY <2>2 DEF KeptInv, DriveInv, Sound
    <3>1. Opens(w, o) /\ OpensLater(w, o, p)
      BY <2>2, <3>0, FileOpens, OpenLater
    <3> HIDE DEF o, p
    <3>2. Alike(w, t) /\ DriveInv(t)
      <4>1. Alike(w, t)
        BY <3>0, <3>1, OpenedAndClosed
      <4> HIDE DEF t
      <4> QED  BY <3>0, <4>1, AlikeSound
    <3>3. Later(o.s, t)
      BY <3>1, SmallLater DEF OpensLater, Later
    <3> HIDE DEF t
    <3>4. Later(w, t)
      BY <3>0, <3>1, <3>3, LaterTwice DEF OpensLater
    <3>5. KeptInv(t)
      BY <2>2, <3>2, <3>4, SameOpenKept DEF Alike
    <3>6. CASE ~ValidId(o.id)
      <4>1. QueryEntry(o, class) = t
        BY <3>6 DEF QueryEntry, CloseFile, t
      <4> QED  BY <3>5, <4>1 DEF o
    <3>7. CASE ValidId(o.id)
      <4>1. PICK r : QueryEntry(o, class) = [t EXCEPT !.reply = r]
        BY <3>7, Zenon DEF QueryEntry, t
      <4> QED  BY <3>5, <4>1, ReplyKept DEF o
    <3> QED  BY <3>6, <3>7
  <2>3. \/ \E e, r : QueryNext(u, id, class, left) = [SetDirStream(u, id, e) EXCEPT !.reply = r]
        \/ \E e, path : QueryNext(u, id, class, left)
                          = QueryEntry(Open(SetDirStream(u, id, e), path, "read", "OPEN", FALSE), class)
    BY Zenon DEF QueryNext
  <2>4. \A e, r : KeptInv([SetDirStream(u, id, e) EXCEPT !.reply = r])
    BY <2>1, ReplyKept
  <2>5. \A e, path :
           KeptInv(QueryEntry(Open(SetDirStream(u, id, e), path, "read", "OPEN", FALSE), class))
    <3> TAKE e, path
    <3> DEFINE w == SetDirStream(u, id, e)
    <3>1. KeptInv(w) /\ Ready(w)
      BY <2>1
    <3> HIDE DEF w
    <3>2. KeptInv(QueryEntry(Open(w, path, "read", "OPEN", FALSE), class))
      BY <2>2, <3>1
    <3> QED  BY <3>2 DEF w
  <2>6. ASSUME NEW e, NEW r, QueryNext(u, id, class, left) = [SetDirStream(u, id, e) EXCEPT !.reply = r]
        PROVE  KeptInv(QueryNext(u, id, class, left))
    BY <2>4, <2>6, Zenon
  <2>7. ASSUME NEW e, NEW path, QueryNext(u, id, class, left)
                          = QueryEntry(Open(SetDirStream(u, id, e), path, "read", "OPEN", FALSE), class)
        PROVE  KeptInv(QueryNext(u, id, class, left))
    BY <2>5, <2>7, Zenon
  <2> QED  BY <2>3, <2>6, <2>7, Zenon
<1>2. ASSUME NEW x  PROVE KeptInv([s EXCEPT !.fs.files[id].pat = x]) /\ Ready([s EXCEPT !.fs.files[id].pat = x])
  <2>1. Later(s, [s EXCEPT !.fs.files[id].pat = x]) /\ Quiet(s, [s EXCEPT !.fs.files[id].pat = x])
    BY SmallLater, QuietSteps DEF KeptInv, Typed
  <2> QED  BY <2>1, QuietKept, QuietReady, SteadyReady
<1>3. \/ \E r : ProcessQueryDirectory(s, id, class, initial, pat) = [s EXCEPT !.reply = r]
      \/ \E x : ProcessQueryDirectory(s, id, class, initial, pat)
                  = QueryWith([s EXCEPT !.fs.files[id].pat = x], id, class)
  BY DEF ProcessQueryDirectory
<1>4. ASSUME NEW u, KeptInv(u), Ready(u)  PROVE KeptInv(QueryWith(u, id, class))
  BY <1>1, <1>4 DEF QueryWith
<1>5. ASSUME NEW r, ProcessQueryDirectory(s, id, class, initial, pat) = [s EXCEPT !.reply = r]
      PROVE  KeptInv(ProcessQueryDirectory(s, id, class, initial, pat))
  <2>1. KeptInv([s EXCEPT !.reply = r])
    BY ReplyKept
  <2> QED  BY <1>5, <2>1, Zenon
<1>6. ASSUME NEW x, ProcessQueryDirectory(s, id, class, initial, pat)
                    = QueryWith([s EXCEPT !.fs.files[id].pat = x], id, class)
      PROVE  KeptInv(ProcessQueryDirectory(s, id, class, initial, pat))
  BY <1>2, <1>4, <1>6
<1> QED  BY <1>3, <1>5, <1>6

(* The other requests of the server.                                       *)
LEMMA RequestKept ==
    ASSUME NEW s, KeptInv(s), Steady(s), NEW id \in s.srv \cup {MaxFiles}
    PROVE  /\ \A off : KeptInv(ProcessRead(s, id, off))
           /\ \A off \in Nat, v \in Bytes : KeptInv(ProcessWrite(s, id, off, v))
           /\ \A class : KeptInv(ProcessVolumeInfo(s, class)) /\ KeptInv(ProcessFileInfo(s, id, class))
           /\ KeptInv(SetDisposition(s, id))
           /\ \A len \in Nat : KeptInv(SetLength(s, id, len))
           /\ \A fn : KeptInv(ProcessFixed(s, fn))
           /\ \A path \in Renames : FreeSlots(s) # {} =>
                 \A none \in BOOLEAN : KeptInv(SetRename(s, id, path, none))
<1>0. Shape(s) /\ (ValidId(id) => id \in s.open /\ s.fs.files[id].path \in PathSpace)
  <2>1. ValidId(id) => id \in s.open
    BY DriveConsts DEF ValidId, KeptInv, DriveInv, Holders
  <2> QED  BY <2>1 DEF KeptInv, Typed, EntrySound
<1>1. \A t, r : Quiet(s, t) /\ Later(s, t) => KeptInv([t EXCEPT !.reply = r])
  BY QuietKept, ReplyKept
<1>2. \A off : KeptInv(ProcessRead(s, id, off))
  BY ReplyKept DEF ProcessRead
<1>3. ASSUME NEW off \in Nat, NEW v \in Bytes  PROVE KeptInv(ProcessWrite(s, id, off, v))
  <2>1. CASE WriteError(s, id) < 0
    BY <2>1, ReplyKept DEF ProcessWrite
  <2>2. CASE ~(WriteError(s, id) < 0)
    <3>1. id \in s.open
      BY <1>0, <2>2 DEF WriteError, EINVAL
    <3>2. Quiet(s, WriteFile(s, id, off, v)) /\ Later(s, WriteFile(s, id, off, v))
      BY <1>0, <3>1, QuietSteps, FileStepsLater
    <3> QED  BY <1>1, <2>2, <3>2 DEF ProcessWrite
  <2> QED  BY <2>1, <2>2
<1>4. \A class : KeptInv(ProcessVolumeInfo(s, class)) /\ KeptInv(ProcessFileInfo(s, id, class))
  BY ReplyKept DEF ProcessVolumeInfo, ProcessFileInfo
<1>5. KeptInv(SetDisposition(s, id))
  <2>1. CASE ~ValidId(id)
    BY <2>1, ReplyKept DEF SetDisposition
  <2>2. CASE ValidId(id)
    <3>1. Quiet(s, DeleteFile(s, id).s) /\ Later(s, DeleteFile(s, id).s)
      BY <1>0, <2>2, QuietSteps, FileStepsLater
    <3> QED  BY <1>1, <2>2, <3>1 DEF SetDisposition
  <2> QED  BY <2>1, <2>2
<1>6. ASSUME NEW len \in Nat  PROVE KeptInv(SetLength(s, id, len))
  <2>1. CASE ~ValidId(id)
    BY <2>1, ReplyKept DEF SetLength
  <2>2. CASE ValidId(id)
    <3>1. Quiet(s, TruncateFile(s, id, len).s) /\ Later(s, TruncateFile(s, id, len).s)
      BY <1>0, <2>2, QuietSteps, FileStepsLater
    <3> QED  BY <1>1, <2>2, <3>1 DEF SetLength
  <2> QED  BY <2>1, <2>2
<1>7. \A fn : KeptInv(ProcessFixed(s, fn))
  BY ReplyKept DEF ProcessFixed
<1>8. ASSUME NEW path \in Renames, FreeSlots(s) # {}, NEW none \in BOOLEAN
      PROVE  KeptInv(SetRename(s, id, path, none))
  <2>1. CASE ~ValidId(id)
    BY <2>1, ReplyKept DEF SetRename
  <2>2. CASE ValidId(id)
    <3>1. \A r : KeptInv([DownloadToUser(s, s.fs.files[id].path, none) EXCEPT !.reply = r])
      BY <1>0, <1>8, <2>2, DownloadBegins, ReplyKept
    <3>2. Quiet(s, RenameFile(s, id, path).s) /\ Later(s, RenameFile(s, id, path).s)
      BY <1>0, <1>8, <2>2, DrivePaths, QuietSteps, FileStepsLater
    <3>3. \A r : KeptInv([RenameFile(s, id, path).s EXCEPT !.reply = r])
      BY <1>1, <3>2
    <3> QED  BY <2>2, <3>1, <3>3 DEF SetRename
  <2> QED  BY <2>1, <2>2
<1> QED  BY <1>2, <1>3, <1>4, <1>5, <1>6, <1>7, <1>8

(* guac_rdp_download_get_handler                                           *)
LEMMA GetKept ==
    ASSUME NEW s, KeptInv(s), Steady(s), FreeSlots(s) # {}, NEW none \in BOOLEAN,
           NEW path, NormalizePath(Abs(path.comps)) \in PathSpace \cup {BadPath}
    PROVE  KeptInv(GetHandler(s, path, none))
<1> DEFINE o == Open(s, path, "read", "OPEN", FALSE)  p == NormalizePath(Abs(path.comps))
           f == o.s.fs.files[o.id]
<1>0. Typed(s) /\ Sound(s) /\ DriveInv(s) /\ Ready(s) /\ p \in PathSpace \cup {BadPath}
  BY SteadyReady DEF KeptInv, DriveInv, Sound
<1>1. Opens(s, o) /\ OpensLater(s, o, p) /\ (o.id \in o.s.open => p # BadPath) /\ GetHandler(s, path, none) = Got(s, o, none)
  BY <1>0, FileOpens, OpenLater DEF GetHandler
<1>2. DriveInv(Got(s, o, none))
  BY <1>0, <1>1, GetSound
<1> HIDE DEF o, p
<1>3. CASE NotOpened(s, o)
  <2>1. Got(s, o, none) = o.s
    BY <1>3 DEF Got, NotOpened, ValidId
  <2> QED  BY <1>1, <1>3, <2>1, NotOpenedKept
<1>4. CASE Fresh(s, o)
  <2>1. Got(s, o, none) = GotFile(s, o, f, none) /\ o.id \in o.s.open /\ p \in PathSpace
    BY <1>0, <1>1, <1>4, DriveConsts DEF Got, Fresh, ValidId
  <2> HIDE DEF f
  <2>a. CASE (f.isdir \/ ~DisableDownload) /\ none
    <3>1. Got(s, o, none) = Faulted(s, "null_stream")
      BY <2>1, <2>a DEF GotFile
    <3>2. Alike(s, Faulted(s, "null_stream"))
      BY <1>0, NullStream
    <3>3. KeptInv(Faulted(s, "null_stream"))
      BY <3>2, FaultedKept
    <3> QED  BY <1>1, <3>1, <3>3
  <2>2. CASE (f.isdir \/ ~DisableDownload) /\ ~none
    <3> DEFINE v == [NoStream EXCEPT !.kind = IF f.isdir THEN "ls" ELSE "down", !.id = o.id,
                                     !.src = IF f.isdir THEN 0 ELSE f.ino]
    <3>1. Got(s, o, none) = [o.s EXCEPT !.strm[NextSlot(o.s)] = v]
      BY <2>1, <2>2 DEF GotFile
    <3>2. /\ StreamFields \subseteq DOMAIN v /\ v.kind \in Active /\ v.id = o.id /\ v.off = 0 /\ v.got = <<>>
          /\ v.src = IF v.kind = "down" THEN f.ino ELSE 0
      BY DEF NoStream, StreamFields, Active
    <3> HIDE DEF v
    <3>3. v.src = IF v.kind = "down" THEN o.s.fs.files[o.id].ino ELSE 0
      BY <3>2 DEF f
    <3> QED  BY <1>1, <1>4, <2>1, <3>1, <3>2, <3>3, BegunKept
  <2>3. CASE ~(f.isdir \/ ~DisableDownload)
    <3> DEFINE t == [o.s EXCEPT !.leaked = @ \cup {o.id}]
    <3>1. Got(s, o, none) = t
      BY <2>1, <2>3 DEF GotFile
    <3>2. Typed(o.s) /\ Later(s, o.s) /\ o.s.open = s.open \cup {o.id} /\ EntrySound(o.s, o.id)
      BY <1>1, <1>4, <2>1 DEF OpensLater, Later, Fresh
    <3>3. /\ Shape(t) /\ t.names = o.s.names /\ t.inode = o.s.inode /\ t.handed = o.s.handed /\ t.strm = o.s.strm
          /\ t.fs = o.s.fs /\ t.open = o.s.open
      BY <3>2 DEF Typed, Shape
    <3> HIDE DEF t
    <3>4. Later(o.s, t)
      BY <3>2, <3>3, FilesLater DEF Typed, Disk, StreamLater
    <3>5. Later(s, t) /\ EntrySound(t, o.id)
      BY <1>0, <2>1, <3>2, <3>4, LaterTwice, EntryStays
    <3>6. \A id \in t.open \ s.open : EntrySound(t, id)
      BY <3>2, <3>3, <3>5
    <3> QED  BY <1>1, <1>2, <3>1, <3>5, <3>6, LaterKept
  <2> QED  BY <2>2, <2>3, <2>a
<1> QED  BY <1>1, <1>3, <1>4 DEF Opens

(* guac_rdp_upload_file_handler and guac_rdp_upload_put_handler            *)
LEMMA UploadKept ==
    ASSUME NEW s, KeptInv(s), Steady(s), FreeSlots(s) # {}, NEW path, NormalizePath(Abs(path.comps)) \in PathSpace \cup {BadPath}
    PROVE  KeptInv(BeginUpload(s, path))
<1> DEFINE o == Open(s, path, "write", "OVERWRITE_IF", FALSE)  p == NormalizePath(Abs(path.comps))
<1>0. Typed(s) /\ Sound(s) /\ DriveInv(s) /\ Ready(s) /\ p \in PathSpace \cup {BadPath}
  BY SteadyReady DEF KeptInv, DriveInv, Sound
<1>1. Opens(s, o) /\ OpensLater(s, o, p) /\ (o.id \in o.s.open => p # BadPath)
  BY <1>0, FileOpens, OpenLater
<1>2. BeginUpload(s, path) = IF DisableUpload THEN s ELSE UploadTo(o)
  BY DEF BeginUpload
<1> HIDE DEF o, p
<1>3. CASE NotOpened(s, o)
  <2>1. UploadTo(o) = o.s
    BY <1>3 DEF UploadTo, NotOpened, ValidId
  <2> QED  BY <1>1, <1>2, <1>3, <2>1, NotOpenedKept
<1>4. CASE Fresh(s, o)
  <2> DEFINE v == [NoStream EXCEPT !.kind = "up", !.id = o.id]
  <2>1. UploadTo(o) = [o.s EXCEPT !.strm[NextSlot(o.s)] = v] /\ p \in PathSpace
    BY <1>0, <1>1, <1>4, DriveConsts DEF UploadTo, Fresh, ValidId
  <2>2. /\ StreamFields \subseteq DOMAIN v /\ v.kind \in Active /\ v.id = o.id /\ v.off = 0 /\ v.got = <<>>
        /\ v.src = IF v.kind = "down" THEN o.s.fs.files[o.id].ino ELSE 0
    BY DEF NoStream, StreamFields, Active
  <2> HIDE DEF v
  <2>3. KeptInv(UploadTo(o))
    BY <1>1, <1>4, <2>1, <2>2, BegunKept
  <2> QED  BY <1>2, <2>3
<1> QED  BY <1>1, <1>3, <1>4 DEF Opens

(* One stream moves on and the others, the drive and the files stay.       *)
LEMMA OneStreamKept ==
    ASSUME NEW s, KeptInv(s), NEW t, DriveInv(t), NEW n \in 1 .. MaxStreams,
           t.names = s.names, t.inode = s.inode, t.handed = s.handed, t.open \subseteq s.open,
           DOMAIN t.fs.files = 0 .. MaxFiles - 1,
           \A id \in 0 .. MaxFiles - 1 : /\ FileFields \subseteq DOMAIN t.fs.files[id]
                                         /\ t.fs.files[id].ino = s.fs.files[id].ino
                                         /\ t.fs.files[id].path = s.fs.files[id].path,
           \A k \in (1 .. MaxStreams) \ {n} : t.strm[k] = s.strm[k],
           t.strm[n].src = s.strm[n].src, StreamSound(s, t.strm[n]), t.strm[n].id = s.strm[n].id,
           t.strm[n].kind = "down" => s.strm[n].kind = "down"
    PROVE  KeptInv(t)
<1>1. Typed(t)
  <2>1. Rooted(t)
    BY DEF KeptInv, Typed, Disk, Rooted, IsDir, Exists
  <2>2. Disk(t)
    BY <2>1 DEF KeptInv, Typed, Disk
  <2>3. \A k \in 1 .. MaxStreams : t.strm[k].src \in 0 .. Len(t.inode)
    BY DEF KeptInv, Typed
  <2> QED  BY <2>2, <2>3 DEF KeptInv, Typed, DriveInv
<1>2. HandedOver(t)
  BY DEF KeptInv, HandedOver
<1>3. s.open \subseteq 0 .. MaxFiles - 1
  BY DEF KeptInv, Typed
<1>4. \A id \in t.open : EntrySound(t, id)
  BY <1>3 DEF KeptInv, EntrySound
<1>5. ASSUME NEW k \in 1 .. MaxStreams  PROVE StreamSound(t, t.strm[k])
  <2>1. StreamSound(s, t.strm[k])
    BY DEF KeptInv
  <2>2. t.strm[k].kind = "down" => t.strm[k].id \in 0 .. MaxFiles - 1
    BY <1>3 DEF KeptInv, DriveInv, Holders, HeldBy, Active
  <2> QED  BY <2>1, <2>2 DEF StreamSound
<1> QED  BY <1>1, <1>2, <1>4, <1>5 DEF KeptInv

(* The file of a stream.                                                   *)
LEMMA StreamFile ==
    ASSUME NEW s, KeptInv(s), NEW k \in HeldBy(s)
    PROVE  /\ k \in 1 .. MaxStreams /\ s.strm[k].id \in s.open /\ s.strm[k].id \in 0 .. MaxFiles - 1
           /\ StreamFields \subseteq DOMAIN s.strm[k] /\ StreamSound(s, s.strm[k]) /\ Typed(s) /\ DriveInv(s)
           /\ DOMAIN s.fs.files = 0 .. MaxFiles - 1
           /\ \A id \in 0 .. MaxFiles - 1 : FileFields \subseteq DOMAIN s.fs.files[id]
<1>1. k \in 1 .. MaxStreams /\ s.strm[k].id \in s.open
  BY DEF HeldBy, KeptInv, DriveInv, Holders
<1> QED  BY <1>1 DEF KeptInv, Typed, Shape, Disk

(* A stream that downloads nothing closes its file and ends.               *)
LEMMA ClosedKept ==
    ASSUME NEW s, KeptInv(s), NEW k \in HeldBy(s), s.strm[k].kind # "down", NEW v,
           DriveInv([CloseFile(s, s.strm[k].id) EXCEPT !.strm[k] = v]),
           v.kind \in {"ended", "refused"}, v.id = s.strm[k].id, v.src = s.strm[k].src,
           v.off = s.strm[k].off, v.got = s.strm[k].got
    PROVE  KeptInv([CloseFile(s, s.strm[k].id) EXCEPT !.strm[k] = v])
<1> DEFINE id == s.strm[k].id  w == CloseFile(s, id)  t == [w EXCEPT !.strm[k] = v]
<1>0. /\ k \in 1 .. MaxStreams /\ id \in s.open /\ id \in 0 .. MaxFiles - 1 /\ StreamSound(s, s.strm[k])
      /\ Typed(s) /\ DOMAIN s.fs.files = 0 .. MaxFiles - 1
      /\ \A i \in 0 .. MaxFiles - 1 : FileFields \subseteq DOMAIN s.fs.files[i]
  BY StreamFile
<1>1. v.src = 0
  BY <1>0 DEF StreamSound, HeldBy, Active
<1>2. /\ w.names = s.names /\ w.inode = s.inode /\ w.handed = s.handed /\ w.open \subseteq s.open
      /\ w.fs.files = s.fs.files /\ w.strm = s.strm /\ DOMAIN w = DOMAIN s
  BY <1>0 DEF CloseFile, ValidId, Typed, Shape
<1>3. DriveInv(t)
  OBVIOUS
<1> HIDE DEF w
<1>4. /\ t.names = s.names /\ t.inode = s.inode /\ t.handed = s.handed /\ t.open \subseteq s.open
      /\ t.fs.files = s.fs.files /\ t.strm = [s.strm EXCEPT ![k] = v] /\ DOMAIN s.strm = 1 .. MaxStreams
  BY <1>0, <1>2 DEF Typed, Shape
<1> HIDE DEF t
<1>5. t.strm[k] = v /\ \A j \in (1 .. MaxStreams) \ {k} : t.strm[j] = s.strm[j]
  BY <1>0, <1>4
<1>6. StreamSound(s, v)
  BY <1>0, <1>1 DEF StreamSound
<1>7. DOMAIN t.fs.files = 0 .. MaxFiles - 1
  BY <1>0, <1>4
<1>8. \A i \in 0 .. MaxFiles - 1 : /\ FileFields \subseteq DOMAIN t.fs.files[i]
                                   /\ t.fs.files[i].ino = s.fs.files[i].ino
                                   /\ t.fs.files[i].path = s.fs.files[i].path
  BY <1>0, <1>4
<1>9. t.strm[k].src = s.strm[k].src /\ StreamSound(s, t.strm[k]) /\ t.strm[k].id = s.strm[k].id /\ t.strm[k].kind # "down"
  BY <1>5, <1>6
<1>10. KeptInv(t)
  <2> HIDE DEF id
  <2> QED  BY <1>0, <1>3, <1>4, <1>5, <1>7, <1>8, <1>9, OneStreamKept
<1> QED  BY <1>10 DEF t, w

(* guac_rdp_upload_blob_handler and guac_rdp_upload_end_handler            *)
LEMMA UploadStreamKept ==
    ASSUME NEW s, KeptInv(s), s.fault = "none", NEW k \in HeldBy(s), s.strm[k].kind = "up"
    PROVE  (\A v \in Bytes : KeptInv(UploadBlob(s, k, v))) /\ KeptInv(UploadEnd(s, k))
<1> DEFINE id == s.strm[k].id
<1>0. /\ k \in 1 .. MaxStreams /\ id \in s.open /\ id \in 0 .. MaxFiles - 1 /\ StreamSound(s, s.strm[k])
      /\ Typed(s) /\ DriveInv(s)
  BY StreamFile
<1>1. ASSUME NEW v \in Bytes  PROVE KeptInv(UploadBlob(s, k, v))
  <2> DEFINE w == WriteFile(s, id, s.strm[k].off, v)
             t == [w EXCEPT !.strm[k].off = @ + 1]
  <2>1. Later(s, w) /\ Quiet(s, w)
    BY <1>0, FileStepsLater, QuietSteps DEF StreamSound, Typed
  <2>2. DriveInv(t)
    BY <1>0, UploadStreamSound DEF UploadBlob
  <2>3. UploadBlob(s, k, v) = t
    BY DEF UploadBlob
  <2> HIDE DEF w
  <2>4. KeptInv(w) /\ w.strm[k].kind = "up" /\ k \in HeldBy(w)
    BY <1>0, <2>1, QuietKept DEF Later, StreamLater, HeldBy, Active
  <2>5. /\ StreamFields \subseteq DOMAIN w.strm[k] /\ StreamSound(w, w.strm[k]) /\ Typed(w)
        /\ DOMAIN w.fs.files = 0 .. MaxFiles - 1
        /\ \A i \in 0 .. MaxFiles - 1 : FileFields \subseteq DOMAIN w.fs.files[i]
    BY <2>4, StreamFile
  <2>6. /\ t.names = w.names /\ t.inode = w.inode /\ t.handed = w.handed /\ t.open = w.open /\ t.fs = w.fs
        /\ t.strm = [w.strm EXCEPT ![k].off = @ + 1] /\ DOMAIN w.strm = 1 .. MaxStreams
    BY <1>0, <2>5 DEF Typed, Shape
  <2> HIDE DEF t
  <2>7. /\ t.strm[k] = [w.strm[k] EXCEPT !.off = @ + 1]
        /\ \A j \in (1 .. MaxStreams) \ {k} : t.strm[j] = w.strm[j]
    BY <1>0, <2>6
  <2>8. /\ t.strm[k].src = w.strm[k].src /\ t.strm[k].id = w.strm[k].id /\ t.strm[k].kind = "up"
        /\ t.strm[k].got = w.strm[k].got /\ t.strm[k].off = w.strm[k].off + 1
    BY <2>4, <2>5, <2>7 DEF StreamFields
  <2>9. StreamSound(w, t.strm[k])
    BY <2>4, <2>5, <2>8 DEF StreamSound
  <2>10. KeptInv(t)
    BY <1>0, <2>2, <2>4, <2>5, <2>6, <2>7, <2>8, <2>9, OneStreamKept
  <2> QED  BY <2>3, <2>10
<1>2. KeptInv(UploadEnd(s, k))
  <2> DEFINE v == [s.strm[k] EXCEPT !.kind = "ended"]
  <2>1. UploadEnd(s, k) = [CloseFile(s, id) EXCEPT !.strm[k] = v]
    <3>1. CloseFile(s, id).strm = s.strm
      BY <1>0 DEF CloseFile, Typed, Shape
    <3> QED  BY <3>1 DEF UploadEnd
  <2>2. DriveInv(UploadEnd(s, k))
    BY <1>0, UploadStreamSound
  <2>3. /\ v.kind = "ended" /\ v.id = s.strm[k].id /\ v.src = s.strm[k].src
        /\ v.off = s.strm[k].off /\ v.got = s.strm[k].got
    BY StreamFile DEF StreamFields
  <2> HIDE DEF v
  <2> QED  BY <2>1, <2>2, <2>3, ClosedKept
<1> QED  BY <1>1, <1>2

(* guac_rdp_download_ack_handler                                           *)
LEMMA DownloadAckKept ==
    ASSUME NEW s, KeptInv(s), NEW k \in HeldBy(s), s.strm[k].kind = "down", NEW ok
    PROVE  KeptInv(DownloadAck(s, k, ok))
<1> DEFINE v == s.strm[k]  data == s.inode[v.src].data  t == DownloadAck(s, k, ok)
<1>0. /\ k \in 1 .. MaxStreams /\ v.id \in s.open /\ StreamFields \subseteq DOMAIN v /\ StreamSound(s, v)
      /\ Typed(s) /\ DriveInv(s) /\ DOMAIN s.fs.files = 0 .. MaxFiles - 1
      /\ \A i \in 0 .. MaxFiles - 1 : FileFields \subseteq DOMAIN s.fs.files[i]
  BY StreamFile
<1>1. DriveInv(t)
  BY <1>0, DownloadAckSound
<1>2. v.src # 0 /\ v.src = s.fs.files[v.id].ino /\ v.off = Len(v.got) /\ v.got \in Seq(Bytes)
  BY <1>0 DEF StreamSound
<1>3. data \in Seq(Bytes) /\ Len(data) \in Nat /\ Len(v.got) \in Nat
  <2>1. v.src \in 1 .. Len(s.inode) /\ s.inode \in Seq(Inodes)
    <3>1. v.src \in 0 .. Len(s.inode) /\ s.inode \in Seq(Inodes) /\ Len(s.inode) \in Nat
      BY <1>0, LenProperties DEF Typed, Disk
    <3> QED  BY <1>2, <3>1
  <2>2. s.inode[v.src] \in Inodes
    BY <2>1, ElementOfSeq
  <2>3. data \in Seq(Bytes)
    BY <2>2 DEF Inodes
  <2> QED  BY <1>2, <2>3, LenProperties
<1>4. ASSUME NEW w, StreamSound(s, w), w.src = v.src, w.id = v.id,
             t.names = s.names, t.inode = s.inode, t.handed = s.handed, t.open = s.open,
             t.fs = s.fs, t.strm = [s.strm EXCEPT ![k] = w]
      PROVE  KeptInv(t)
  <2> HIDE DEF t
  <2>1. DOMAIN s.strm = 1 .. MaxStreams
    BY <1>0 DEF Typed, Shape
  <2>2. t.strm[k] = w /\ \A j \in (1 .. MaxStreams) \ {k} : t.strm[j] = s.strm[j]
    BY <1>0, <1>4, <2>1
  <2>3. DOMAIN t.fs.files = 0 .. MaxFiles - 1
    BY <1>0, <1>4
  <2>4. \A i \in 0 .. MaxFiles - 1 : /\ FileFields \subseteq DOMAIN t.fs.files[i]
                                     /\ t.fs.files[i].ino = s.fs.files[i].ino
                                     /\ t.fs.files[i].path = s.fs.files[i].path
    BY <1>0, <1>4
  <2>5. t.strm[k].src = s.strm[k].src /\ StreamSound(s, t.strm[k]) /\ t.strm[k].id = s.strm[k].id
    BY <1>4, <2>2
  <2> QED  BY <1>0, <1>1, <1>4, <2>2, <2>3, <2>4, <2>5, OneStreamKept
<1>5. ReadFile(s, v.id, v.off) = IF v.off < Len(data) THEN <<data[v.off + 1]>> ELSE <<>>
  BY <1>2 DEF ReadFile
<1>6. CASE ~ok
  <2> DEFINE w == [v EXCEPT !.kind = "refused"]
  <2>1. /\ t.names = s.names /\ t.inode = s.inode /\ t.handed = s.handed /\ t.open = s.open
        /\ t.fs = s.fs /\ t.strm = [s.strm EXCEPT ![k] = w]
    BY <1>0, <1>6 DEF DownloadAck, Typed, Shape
  <2>2. /\ w.kind = "refused" /\ w.id = v.id /\ w.src = v.src /\ w.off = v.off /\ w.got = v.got
        /\ w.clean = v.clean
    BY <1>0 DEF StreamFields
  <2> HIDE DEF w
  <2>3. StreamSound(s, w)
    BY <1>0, <2>2 DEF StreamSound
  <2> QED  BY <1>4, <2>1, <2>2, <2>3
<1>7. CASE ok /\ v.off < Len(data)
  <2> DEFINE x == ReadFile(s, v.id, v.off)  w == [v EXCEPT !.off = @ + 1, !.got = @ \o x]
  <2>x. x = <<data[v.off + 1]>> /\ x # <<>>
    BY <1>5, <1>7
  <2>0. t = [s EXCEPT !.strm[k] = w]
    BY <1>7, <2>x DEF DownloadAck
  <2>1. /\ t.names = s.names /\ t.inode = s.inode /\ t.handed = s.handed /\ t.open = s.open
        /\ t.fs = s.fs /\ t.strm = [s.strm EXCEPT ![k] = w]
    <3> HIDE DEF t, w
    <3> QED  BY <1>0, <2>0 DEF Typed, Shape
  <2>2. /\ w.kind = "down" /\ w.id = v.id /\ w.src = v.src /\ w.off = v.off + 1 /\ w.got = v.got \o x
        /\ w.clean = v.clean
    <3> HIDE DEF x
    <3> QED  BY <1>0 DEF StreamFields
  <2>3. v.got \o x \in Seq(Bytes) /\ Len(v.got \o x) = v.off + 1
    <3> DEFINE g == v.got  d == data  n == v.off
    <3> HIDE DEF g, d, n
    <3>1. g \in Seq(Bytes) /\ d \in Seq(Bytes) /\ n = Len(g) /\ Len(d) \in Nat /\ n \in Nat /\ n < Len(d)
      BY <1>2, <1>3, <1>7 DEF g, d, n
    <3>2. d[n + 1] \in Bytes
      BY <3>1, ElementOfSeq
    <3>3. g \o <<d[n + 1]>> \in Seq(Bytes) /\ Len(g \o <<d[n + 1]>>) = n + 1
      BY <3>1, <3>2
    <3> QED  BY <2>x, <3>3 DEF g, d, n
  <2>4. v.clean => IsPrefix(v.got \o x, data)
    <3>1. v.clean => IsPrefix(v.got, data)
      BY <1>0, <1>2 DEF StreamSound
    <3> DEFINE g == v.got  d == data
    <3> HIDE DEF g, d
    <3>2. g \in Seq(Bytes) /\ d \in Seq(Bytes) /\ v.off = Len(g) /\ Len(g) < Len(d)
      BY <1>2, <1>3, <1>7 DEF g, d
    <3>3. IsPrefix(g, d) => IsPrefix(g \o <<d[Len(g) + 1]>>, d)
      BY <3>2, PrefixGrows
    <3> QED  BY <2>x, <3>1, <3>2, <3>3 DEF g, d
  <2> HIDE DEF w, x
  <2>5. StreamSound(s, w)
    <3>1. v.off + 1 \in Nat
      <4> DEFINE n == v.off
      <4>1. n \in Nat
        BY <1>2, <1>3
      <4> HIDE DEF n
      <4>2. n + 1 \in Nat
        BY <4>1
      <4> QED  BY <4>2 DEF n
    <3> DEFINE g == v.got \o x
    <3> HIDE DEF g
    <3>2. g \in Seq(Bytes) /\ Len(g) = v.off + 1 /\ w.got = g /\ (v.clean => IsPrefix(g, data))
      BY <2>2, <2>3, <2>4 DEF g
    <3> QED  BY <1>2, <2>2, <3>1, <3>2 DEF StreamSound
  <2> QED  BY <1>4, <2>1, <2>2, <2>5
<1>8. CASE ok /\ ~(v.off < Len(data))
  <2> DEFINE w == [v EXCEPT !.kind = "ended"]
  <2>1. /\ t.names = s.names /\ t.inode = s.inode /\ t.handed = s.handed /\ t.open = s.open
        /\ t.fs = s.fs /\ t.strm = [s.strm EXCEPT ![k] = w]
    <3>1. ReadFile(s, v.id, v.off) = <<>>
      BY <1>5, <1>8
    <3> QED  BY <1>0, <1>8, <3>1 DEF DownloadAck, Typed, Shape
  <2>2. /\ w.kind = "ended" /\ w.id = v.id /\ w.src = v.src /\ w.off = v.off /\ w.got = v.got
        /\ w.clean = v.clean
    BY <1>0 DEF StreamFields
  <2>3. v.clean => v.got = data /\ IsPrefix(v.got, data)
    <3>1. v.clean => IsPrefix(v.got, data)
      BY <1>0, <1>2 DEF StreamSound
    <3> DEFINE g == v.got  d == data
    <3> HIDE DEF g, d
    <3>2. g \in Seq(Bytes) /\ d \in Seq(Bytes) /\ ~(Len(g) < Len(d))
      BY <1>2, <1>3, <1>8 DEF g, d
    <3>3. IsPrefix(g, d) => g = d
      BY <3>2, PrefixGrows
    <3> QED  BY <3>1, <3>3 DEF g, d
  <2> HIDE DEF w
  <2>4. StreamSound(s, w)
    BY <1>0, <2>2, <2>3 DEF StreamSound
  <2> QED  BY <1>4, <2>1, <2>2, <2>4
<1> QED  BY <1>6, <1>7, <1>8

(* A listing goes on or ends.                                              *)
LEMMA LsNamesKept ==
    ASSUME NEW s, KeptInv(s), s.fault = "none", NEW k \in HeldBy(s), s.strm[k].kind = "ls"
    PROVE  /\ KeptInv([CloseFile(s, s.strm[k].id) EXCEPT !.strm[k].kind = "refused"])
           /\ \A left, listed : KeptInv(LsNames(s, k, left, listed))
<1> DEFINE id == s.strm[k].id  w == CloseFile(s, id)
<1>0. /\ k \in 1 .. MaxStreams /\ id \in s.open /\ StreamFields \subseteq DOMAIN s.strm[k]
      /\ StreamSound(s, s.strm[k]) /\ Typed(s) /\ DriveInv(s)
  BY StreamFile
<1>1. w.strm = s.strm /\ DOMAIN w = DOMAIN s /\ "strm" \in DOMAIN s /\ DOMAIN s.strm = 1 .. MaxStreams
  BY <1>0 DEF CloseFile, ValidId, Typed, Shape
<1>2. ASSUME NEW v, DriveInv([w EXCEPT !.strm[k] = v]), v.kind \in {"ended", "refused"}, v.id = s.strm[k].id,
             v.src = s.strm[k].src, v.off = s.strm[k].off, v.got = s.strm[k].got
      PROVE  KeptInv([w EXCEPT !.strm[k] = v])
  BY <1>2, ClosedKept
<1>3. KeptInv([w EXCEPT !.strm[k].kind = "refused"])
  <2> DEFINE v == [s.strm[k] EXCEPT !.kind = "refused"]
  <2>1. DriveInv([w EXCEPT !.strm[k].kind = "refused"])
    BY <1>0, LsNamesSound
  <2> HIDE DEF w
  <2>2. [w EXCEPT !.strm[k].kind = "refused"] = [w EXCEPT !.strm[k] = v]
    BY <1>1
  <2>3. /\ v.kind = "refused" /\ v.id = s.strm[k].id /\ v.src = s.strm[k].src
        /\ v.off = s.strm[k].off /\ v.got = s.strm[k].got
    BY <1>0 DEF StreamFields
  <2> HIDE DEF v
  <2> QED  BY <1>2, <2>1, <2>2, <2>3
<1>4. ASSUME NEW x, DriveInv([w EXCEPT !.strm[k].listed = @ \cup x, !.strm[k].kind = "ended"])
      PROVE  KeptInv([w EXCEPT !.strm[k].listed = @ \cup x, !.strm[k].kind = "ended"])
  <2> DEFINE v == [s.strm[k] EXCEPT !.listed = @ \cup x, !.kind = "ended"]
  <2> HIDE DEF w
  <2>2. [w EXCEPT !.strm[k].listed = @ \cup x, !.strm[k].kind = "ended"] = [w EXCEPT !.strm[k] = v]
    BY <1>1
  <2>3. /\ v.kind = "ended" /\ v.id = s.strm[k].id /\ v.src = s.strm[k].src
        /\ v.off = s.strm[k].off /\ v.got = s.strm[k].got
    BY <1>0 DEF StreamFields
  <2> HIDE DEF v
  <2> QED  BY <1>2, <1>4, <2>2, <2>3
<1>5. ASSUME NEW e, NEW x
      PROVE  KeptInv([SetDirStream(s, id, e) EXCEPT !.strm[k].listed = @ \cup x, !.strm[k].json = 1])
  <2> DEFINE u == SetDirStream(s, id, e)
             t == [u EXCEPT !.strm[k].listed = @ \cup x, !.strm[k].json = 1]
  <2>1. Later(s, u) /\ Quiet(s, u)
    BY <1>0, SmallLater, QuietSteps DEF Typed
  <2> HIDE DEF u
  <2>2. KeptInv(u) /\ Typed(u) /\ Shape(u) /\ k \in HeldBy(u) /\ u.strm[k].kind = "ls"
    BY <1>0, <2>1, QuietKept DEF KeptInv, Typed, Later, StreamLater, HeldBy, Active
  <2>3. Quiet(u, t)
    BY <1>0, <2>2 DEF Quiet, Shape, StreamFields, SameTable, SameCount, SameHolders
  <2>4. /\ t.names = u.names /\ t.inode = u.inode /\ t.handed = u.handed /\ t.open = u.open /\ t.fs = u.fs
    BY <2>2 DEF Shape
  <2>5. \A j \in 1 .. MaxStreams : StreamLater(u, t, u.strm[j], t.strm[j])
    BY <1>0, <2>2 DEF Shape, StreamFields, StreamLater
  <2> HIDE DEF t
  <2>6. Later(u, t)
    BY <2>2, <2>3, <2>4, <2>5, FilesLater DEF Quiet, Typed, Disk
  <2>7. KeptInv(t)
    BY <2>2, <2>3, <2>6, QuietKept
  <2> QED  BY <2>7 DEF t, u
<1>6. ASSUME NEW left, NEW listed  PROVE KeptInv(LsNames(s, k, left, listed))
  <2> DEFINE Ended(x) == [w EXCEPT !.strm[k].listed = @ \cup x, !.strm[k].kind = "ended"]
             Flushed(e, x) == [SetDirStream(s, id, e) EXCEPT !.strm[k].listed = @ \cup x, !.strm[k].json = 1]
             n == LsNames(s, k, left, listed)
  <2>1. (\E x : n = Ended(x)) \/ (\E e, x : n = Flushed(e, x))
    BY Zenon DEF LsNames
  <2>2. DriveInv(n)
    BY <1>0, LsNamesSound
  <2>3. \A x : DriveInv(Ended(x)) => KeptInv(Ended(x))
    BY <1>4
  <2>4. \A e, x : KeptInv(Flushed(e, x))
    BY <1>5
  <2> HIDE DEF Ended, Flushed, n
  <2>5. KeptInv(n)
    BY <2>1, <2>2, <2>3, <2>4, Zenon
  <2> QED  BY <2>5 DEF n
<1> QED  BY <1>3, <1>6 DEF w

(* guac_rdp_ls_ack_handler                                                 *)
LEMMA LsAckKept ==
    ASSUME NEW s, KeptInv(s), Steady(s), NEW k \in HeldBy(s), s.strm[k].kind = "ls", NEW ok
    PROVE  KeptInv(LsAck(s, k, ok))
<1> DEFINE listed == LsListed(s, k)  u == LsOpened(s, listed)
<1>0. Typed(s) /\ Sound(s) /\ Ready(s)
  BY SteadyReady DEF KeptInv, DriveInv, Sound
<1>1. CASE ~ok
  BY <1>1, LsNamesKept DEF LsAck, Steady
<1>2. CASE ok
  <2>1. LsAck(s, k, ok) = LsNext(u, k, listed)
    BY <1>2 DEF LsAck
  <2>2. Alike(s, u)
    BY <1>0, LsOpenedSound
  <2> HIDE DEF listed
  <2>3. Later(s, u)
    <3>1. CASE u = s
      BY <1>0, <3>1, LaterSelf
    <3>2. CASE u = Faulted(s, "overrun")
      BY <1>0, <3>2, FaultedLater
    <3>3. CASE u = [s EXCEPT !.fs.inc = @ + 1, !.fs.dec = @ + 1]
      <4>1. /\ u.names = s.names /\ u.inode = s.inode /\ u.handed = s.handed /\ u.strm = s.strm
            /\ u.fs.files = s.fs.files /\ u.open = s.open
        BY <1>0, <3>3 DEF Typed, Shape
      <4> HIDE DEF u
      <4> QED  BY <1>0, <2>2, <4>1, FilesLater DEF Typed, Disk, StreamLater, Alike, Sound
    <3> QED  BY <3>1, <3>2, <3>3 DEF LsOpened
  <2> HIDE DEF u
  <2>4. DriveInv(u) /\ u.open = s.open
    BY <2>2, AlikeSound DEF KeptInv, Alike
  <2>5. KeptInv(u)
    BY <2>3, <2>4, SameOpenKept
  <2>6. k \in HeldBy(u) /\ u.strm[k].kind = "ls"
    BY <2>2 DEF Alike, SameHolders, HeldBy
  <2>7. KeptInv(LsNext(u, k, listed))
    BY <2>5, <2>6, LsNamesKept DEF LsNext
  <2> QED  BY <2>1, <2>7
<1> QED  BY <1>1, <1>2

(* The owner's connection ends.                                            *)
LEMMA StreamsFreedKept == ASSUME NEW s, KeptInv(s)  PROVE KeptInv(StreamsFreed(s))
<1> DEFINE t == StreamsFreed(s)
<1>0. Typed(s) /\ Shape(s) /\ DriveInv(t)
  BY StreamsFreedSound DEF KeptInv, Typed
<1>1. /\ t.names = s.names /\ t.inode = s.inode /\ t.handed = s.handed /\ t.open = s.open /\ t.fs = s.fs
      /\ DOMAIN t = DOMAIN s
  BY <1>0 DEF StreamsFreed, Shape
<1>2. t.strm = [k \in DOMAIN s.strm |-> IF k \in HeldBy(s) THEN [s.strm[k] EXCEPT !.kind = "gone"] ELSE s.strm[k]]
  BY <1>0 DEF StreamsFreed, HeldBy, Active, Shape
<1> HIDE DEF t
<1>3. ASSUME NEW k \in 1 .. MaxStreams
      PROVE  /\ t.strm[k].id = s.strm[k].id /\ t.strm[k].src = s.strm[k].src /\ t.strm[k].clean = s.strm[k].clean
             /\ t.strm[k].off = s.strm[k].off /\ t.strm[k].got = s.strm[k].got
             /\ t.strm[k].kind = "gone" \/ t.strm[k].kind = s.strm[k].kind
             /\ t.strm[k].kind # "down"
  BY <1>0, <1>2 DEF Shape, StreamFields, HeldBy, Active
<1>4. Typed(t)
  <2>1. Rooted(t)
    BY <1>0, <1>1 DEF Typed, Disk, Rooted, IsDir, Exists
  <2> QED  BY <1>0, <1>1, <1>3, <2>1 DEF Typed, Disk, DriveInv
<1>5. HandedOver(t)
  BY <1>1, <1>3 DEF KeptInv, HandedOver
<1>6. \A id \in t.open : EntrySound(t, id)
  BY <1>1 DEF KeptInv, EntrySound
<1>7. ASSUME NEW k \in 1 .. MaxStreams  PROVE StreamSound(t, t.strm[k])
  <2> DEFINE v == s.strm[k]  u == t.strm[k]
  <2>1. StreamSound(s, v)
    BY DEF KeptInv
  <2>2. /\ u.src = v.src /\ u.clean = v.clean /\ u.off = v.off /\ u.got = v.got /\ u.kind # "down"
        /\ u.kind = "gone" \/ u.kind = v.kind
    BY <1>3
  <2> HIDE DEF u, v
  <2>3. StreamSound(t, u)
    BY <1>1, <2>1, <2>2 DEF StreamSound
  <2> QED  BY <2>3 DEF u
<1>8. KeptInv(t)
  BY <1>0, <1>4, <1>5, <1>6, <1>7 DEF KeptInv
<1> QED  BY <1>8 DEF t

(* The invariant of the downloads: what a handler finds, and what it gets  *)
(* the drive to, but for the changes of the count.                         *)
Delivers(s) ==
    /\ Typed(s) /\ HandedOver(s)
    /\ \A id \in s.open : EntrySound(s, id)
    /\ \A k \in 1 .. MaxStreams : StreamSound(s, s.strm[k])
KeptIInv == DriveIInv /\ Delivers(drive)

(* The count has no part in it.                                            *)
LEMMA KeptSame ==
    ASSUME NEW s, Delivers(s), NEW u, Shape(u), u.strm = s.strm, u.fs.files = s.fs.files, u.open = s.open,
           u.names = s.names, u.inode = s.inode, u.handed = s.handed
    PROVE  Delivers(u)
<1>1. Rooted(u)
  BY DEF Delivers, Typed, Disk, Rooted, IsDir, Exists
<1>2. Typed(u)
  BY <1>1 DEF Delivers, Typed, Disk
<1>3. HandedOver(u) /\ \A id \in u.open : EntrySound(u, id)
  BY DEF Delivers, HandedOver, EntrySound
<1>4. ASSUME NEW k \in 1 .. MaxStreams  PROVE StreamSound(u, u.strm[k])
  <2> DEFINE v == s.strm[k]
  <2>1. StreamSound(s, v) /\ u.strm[k] = v
    BY DEF Delivers
  <2> HIDE DEF v
  <2>2. StreamSound(u, v)
    BY <2>1 DEF StreamSound
  <2> QED  BY <2>1, <2>2
<1> QED  BY <1>2, <1>3, <1>4 DEF Delivers

LEMMA HandlerFinds == KeptIInv /\ drive.fault = "none" => KeptInv(drive) /\ Steady(drive)
BY HandlerBegins DEF KeptIInv, Delivers, KeptInv

LEMMA HandlerKept ==
    ASSUME KeptIInv, NEW s, KeptInv(s), NEW t \in Threads, Ran(t, s)
    PROVE  KeptIInv'
<1> DEFINE u == Left(t, s)
<1>1. DriveIInv' /\ drive' = u /\ drive.due[t] = NoneDue /\ DriveIInv /\ DriveInv(s)
  BY HandlerStep DEF KeptIInv, KeptInv, Ran
<1>2. /\ Shape(u) /\ u.strm = s.strm /\ u.fs.files = s.fs.files /\ u.open = s.open /\ u.names = s.names
      /\ u.inode = s.inode /\ u.handed = s.handed
  BY <1>1, HandlerEnds
<1> HIDE DEF u
<1>3. Delivers(u)
  BY <1>2, KeptSame DEF KeptInv, Delivers
<1>4. Delivers(drive')
  BY <1>1, <1>3
<1> QED  BY <1>1, <1>4 DEF KeptIInv

(* The drive before the first request.                                     *)
LEMMA KeptInitially == DriveInit => KeptIInv
<1> SUFFICES ASSUME DriveInit, NEW found \in FoundDrives, drive = InitDrive(found)  PROVE KeptIInv
  BY DEF DriveInit
<1> DEFINE n == Len(found)
           root == [dir |-> TRUE, data |-> <<>>]
           rest == [i \in DOMAIN found |-> [dir |-> found[i] = <<"Download">>, data |-> <<>>]]
<1>0. DriveIInv
  BY DriveInitially
<1>1. n \in Nat /\ DOMAIN found = 1 .. n /\ \A i \in 1 .. n : Len(found[i]) = 1
  <2> DEFINE Names == {"Download", "a"}
             P(f) == Len(f) \in Nat /\ DOMAIN f = 1 .. Len(f) /\ \A i \in 1 .. Len(f) : Len(f[i]) = 1
  <2>1. P(<<>>)
    OBVIOUS
  <2>2. \A a \in Names : <<a>> \in Seq(Names) /\ Len(<<a>>) = 1
    <3> HIDE DEF Names
    <3> QED  OBVIOUS
  <2>3. \A a \in Seq(Names) : Len(a) = 1 => P(<<a>>)
    <3> HIDE DEF Names
    <3> QED  OBVIOUS
  <2>4. \A a, b \in Seq(Names) : Len(a) = 1 /\ Len(b) = 1 => P(<<a, b>>)
    <3> HIDE DEF Names
    <3> QED  OBVIOUS
  <2>5. "Download" \in Names /\ "a" \in Names
    OBVIOUS
  <2> HIDE DEF P, Names
  <2>6. P(<<>>) /\ P(<<<<"Download">>>>) /\ P(<<<<"Download">>, <<"a">>>>)
    BY <2>1, <2>2, <2>3, <2>4, <2>5
  <2>7. P(found)
    BY <2>6 DEF FoundDrives
  <2> QED  BY <2>7 DEF P
<1>2. root \in Inodes /\ rest \in Seq(Inodes) /\ Len(rest) = n
  <2>1. <<>> \in Seq(Bytes)
    OBVIOUS
  <2>2. \A b \in BOOLEAN : [dir |-> b, data |-> <<>>] \in Inodes
    BY <2>1 DEF Inodes
  <2>3. rest \in [1 .. n -> Inodes]
    BY <1>1, <2>2
  <2> HIDE DEF n, rest
  <2>4. rest \in Seq(Inodes) /\ DOMAIN rest = 1 .. n
    BY <1>1, <2>3, SeqDef
  <2>5. Len(rest) \in Nat /\ 1 .. Len(rest) = 1 .. n
    BY <2>4, LenProperties
  <2>6. Len(rest) = n
    BY <1>1, <2>5
  <2> QED  BY <2>2, <2>4, <2>6 DEF root
<1>3. drive.inode = <<root>> \o rest
  BY DEF InitDrive
<1>4. drive.names = [p \in PathSpace |-> IF p = <<>> THEN 1
                                         ELSE IF \E i \in DOMAIN found : found[i] = p
                                              THEN 1 + CHOOSE i \in DOMAIN found : found[i] = p ELSE 0]
  BY DEF InitDrive
<1>5. /\ drive.fs.files = [i \in 0 .. MaxFiles - 1 |-> NoFile] /\ drive.open = {} /\ drive.handed = {}
      /\ drive.strm = [k \in 1 .. MaxStreams |-> NoStream]
  BY DEF InitDrive, NewFs
<1> HIDE DEF root, rest, n
<1>6. drive.inode \in Seq(Inodes) /\ Len(drive.inode) = n + 1 /\ drive.inode[1] = root
  BY <1>1, <1>2, <1>3
<1>7. \A p \in PathSpace : /\ drive.names[p] \in 0 .. n + 1
                           /\ p # <<>> /\ drive.names[p] # 0 => \E i \in 1 .. n : found[i] = p
  <2> SUFFICES ASSUME NEW p \in PathSpace
               PROVE  /\ drive.names[p] \in 0 .. n + 1
                      /\ p # <<>> /\ drive.names[p] # 0 => \E i \in 1 .. n : found[i] = p
    OBVIOUS
  <2> DEFINE c == CHOOSE i \in DOMAIN found : found[i] = p
  <2>1. (\E i \in DOMAIN found : found[i] = p) => c \in 1 .. n
    BY <1>1
  <2>2. drive.names[p] = IF p = <<>> THEN 1 ELSE IF \E i \in DOMAIN found : found[i] = p THEN 1 + c ELSE 0
    BY <1>4
  <2> HIDE DEF c
  <2>3. (\E i \in DOMAIN found : found[i] = p) <=> (\E i \in 1 .. n : found[i] = p)
    BY <1>1
  <2> QED  BY <1>1, <2>1, <2>2, <2>3
<1>8. Rooted(drive)
  <2> SUFFICES ASSUME NEW p \in PathSpace, p # <<>>, drive.names[p] # 0  PROVE IsDir(drive, Front(p))
    BY DEF Rooted, Exists
  <2>1. Len(p) = 1 /\ p \in Seq(STRING)
    BY <1>1, <1>7, DrivePaths
  <2>2. Front(p) \in Seq(STRING) /\ Len(Front(p)) = 0
    BY <2>1, FrontIs
  <2>3. Front(p) = <<>>
    BY <2>2, EmptySeq
  <2>4. drive.names[<<>>] = 1
    BY <1>4, DrivePaths
  <2> QED  BY <1>6, <2>3, <2>4 DEF IsDir, Exists, root
<1>9. Disk(drive)
  <2>1. drive.names \in [PathSpace -> 0 .. Len(drive.inode)]
    BY <1>1, <1>4, <1>6, <1>7
  <2>2. FileFields \subseteq DOMAIN NoFile
    BY DEF NoFile, FileFields
  <2> HIDE DEF FileFields
  <2> QED  BY <1>5, <1>6, <1>8, <2>1, <2>2 DEF Disk
<1>10. Typed(drive)
  <2>1. NoStream.src = 0 /\ 0 \in 0 .. Len(drive.inode)
    BY <1>1, <1>6 DEF NoStream
  <2> QED  BY <1>0, <1>5, <1>9, <2>1 DEF Typed, DriveIInv
<1>11. \A k \in 1 .. MaxStreams : StreamSound(drive, drive.strm[k])
  <2>1. StreamSound(drive, NoStream)
    BY DEF StreamSound, NoStream
  <2> QED  BY <1>5, <2>1
<1> QED  BY <1>0, <1>5, <1>10, <1>11 DEF KeptIInv, Delivers, HandedOver

(* A request of the server.                                                *)
LEMMA ServerStepKept ==
    ASSUME KeptIInv, ServerNext
    PROVE  \E s : KeptInv(s) /\ Ran("rdp", s)
<1> USE DEF Requested, Called, Continued
<1>0. KeptInv(drive) /\ Steady(drive)
  <2>1. drive.fault = "none"
    BY DEF ServerNext, Handshake, Create, Read, Write, Close, QueryInfo, Delete, SetEndOfFile, OtherRequest,
           Rename, QueryDirectory, Ran
  <2> QED  BY <2>1, HandlerFinds
<1>a. \A i \in 0 .. MaxLen : i \in Nat
  BY DrivePaths
<1>1. CASE Handshake
  <2>1. PICK x : Ran("rdp", [drive EXCEPT !.chan.told = x])
    BY <1>1 DEF Handshake, ServerAnnounced, ServerCapable, UserLoggedOn
  <2>2. Quiet(drive, [drive EXCEPT !.chan.told = x]) /\ Later(drive, [drive EXCEPT !.chan.told = x])
    BY <1>0, QuietSteps, SmallLater DEF KeptInv, DriveInv
  <2> QED  BY <1>0, <2>1, <2>2, QuietKept
<1>2. CASE \E c \in Creates : Create(c[1], c[2], c[3], c[4])
  <2>1. PICK c \in Creates : Create(c[1], c[2], c[3], c[4])
    BY <1>2
  <2>2. NormalizePath(Abs(c[1].comps)) \in PathSpace \cup {BadPath}
    BY DrivePaths
  <2> QED  BY <1>0, <2>1, <2>2, CreateKept DEF Create
<1>3. CASE Read
  BY <1>0, <1>3, RequestKept DEF Read, ServerIds
<1>4. CASE \E v \in Contents : Write(v)
  <2>1. PICK v \in Contents, id \in ServerIds, off \in 0 .. MaxLen - 1 : Ran("rdp", ProcessWrite(drive, id, off, v))
    BY <1>4 DEF Write
  <2>2. v \in Bytes /\ off \in Nat
    BY DrivePaths DEF Bytes
  <2> QED  BY <1>0, <2>1, <2>2, RequestKept DEF ServerIds
<1>5. CASE Close
  BY <1>0, <1>5, CloseKept DEF Close, RoomForStream, ServerIds
<1>6. CASE QueryInfo
  <2>1. ServerIds # {}
    BY DEF ServerIds
  <2> QED  BY <1>0, <1>6, <2>1, RequestKept DEF QueryInfo, ServerIds
<1>7. CASE Delete
  BY <1>0, <1>7, RequestKept DEF Delete, ServerIds
<1>8. CASE SetEndOfFile
  BY <1>0, <1>a, <1>8, RequestKept DEF SetEndOfFile, ServerIds
<1>9. CASE OtherRequest
  <2>1. MaxFiles \in drive.srv \cup {MaxFiles}
    OBVIOUS
  <2> QED  BY <1>0, <1>9, <2>1, RequestKept DEF OtherRequest
<1>10. CASE \E p \in Renames : Rename(p)
  BY <1>0, <1>10, RequestKept DEF Rename, RoomForStream, ServerIds
<1>11. CASE \E pat \in Patterns : QueryDirectory(pat)
  BY <1>0, <1>11, QueryKept DEF QueryDirectory
<1> QED  BY <1>1, <1>2, <1>3, <1>4, <1>5, <1>6, <1>7, <1>8, <1>9, <1>10, <1>11 DEF ServerNext

(* An instruction of the owner, and its end.                               *)
LEMMA OwnerStepKept ==
    ASSUME KeptIInv, OwnerNext
    PROVE  \E s : KeptInv(s) /\ Ran("owner", s)
<1> USE DEF Called, Continued
<1>0. KeptInv(drive) /\ Steady(drive) /\ drive.fault = "none"
  <2>1. drive.fault = "none"
    BY DEF OwnerNext, Get, Put, Upload, Blob, End, StreamAck, OwnerGone, Ran
  <2> QED  BY <2>1, HandlerFinds
<1>a. \A kind \in Active : \A k \in StreamOf(kind) : k \in HeldBy(drive) /\ drive.strm[k].kind = kind
  BY DEF StreamOf, HeldBy
<1>1. CASE \E p \in OwnerPaths : Get(p) \/ Put(p)
  <2>1. \A p \in OwnerPaths : NormalizePath(Abs(p.comps)) \in PathSpace \cup {BadPath}
    BY DrivePaths
  <2> QED  BY <1>0, <1>1, <2>1, GetKept, UploadKept DEF Get, Put, RoomForStream
<1>2. CASE \E name \in UploadNames : Upload(name)
  <2>1. \A name \in UploadNames : NormalizePath(Abs(UploadPath(name).comps)) \in PathSpace \cup {BadPath}
    BY DrivePaths
  <2> QED  BY <1>0, <1>2, <2>1, UploadKept DEF Upload, Put, RoomForStream
<1>3. CASE \E v \in OwnerContents : Blob(v)
  BY <1>0, <1>a, <1>3, UploadStreamKept DEF Blob, Active, Bytes
<1>4. CASE End
  BY <1>0, <1>a, <1>4, UploadStreamKept DEF End, Active
<1>5. CASE StreamAck
  BY <1>0, <1>a, <1>5, DownloadAckKept, LsAckKept DEF StreamAck, Active
<1>6. CASE OwnerGone
  BY <1>0, <1>6, StreamsFreedKept DEF OwnerGone
<1> QED  BY <1>1, <1>2, <1>3, <1>4, <1>5, <1>6 DEF OwnerNext

(* A file the server wrote below \Download and closes while the owner is   *)
(* there, the table has room for it by its count and its name still leads  *)
(* to it, is removed from the drive only when a stream of the owner has it *)
(* (without these the code does lose it: EveryDownloadKept).  What a       *)
(* stream delivers is a prefix of the file it was begun for, all of it     *)
(* once the stream has ended, as long as nobody writes to that file        *)
(* meanwhile.  For any paths, contents and number of files and streams,    *)
(* and whatever the server and the owner do to the drive between two       *)
(* acknowledgements: renames, supersedes and deletions of the file under   *)
(* the download included; up to the first stream that cannot be had        *)
(* (rdpdr-fs-messages.c, fs.c, download.c).                                *)
THEOREM DownloadsNotLost == DriveSpec => []DownloadKept
<1>1. DriveInit => KeptIInv
  BY KeptInitially
<1>2. KeptIInv /\ [DriveNext]_driveVars => KeptIInv'
  <2> SUFFICES ASSUME KeptIInv, [DriveNext]_driveVars  PROVE KeptIInv'
    OBVIOUS
  <2>1. CASE ServerNext \/ OwnerNext
    <3>1. "rdp" \in Threads /\ "owner" \in Threads
      BY DEF Threads
    <3> QED  BY <2>1, <3>1, ServerStepKept, OwnerStepKept, HandlerKept
  <2>2. CASE CountNext
    <3>1. /\ DriveIInv' /\ drive'.strm = drive.strm /\ drive'.fs.files = drive.fs.files /\ drive'.open = drive.open
          /\ drive'.names = drive.names /\ drive'.inode = drive.inode /\ drive'.handed = drive.handed
      BY <2>2, CountStep DEF KeptIInv
    <3>2. Shape(drive') /\ Delivers(drive)
      BY <3>1 DEF KeptIInv, DriveIInv
    <3>3. Delivers(drive')
      BY <3>1, <3>2, KeptSame
    <3> QED  BY <3>1, <3>3 DEF KeptIInv
  <2>3. CASE UNCHANGED driveVars
    <3>1. drive' = drive
      BY <2>3 DEF driveVars
    <3> QED  BY <3>1 DEF KeptIInv, DriveIInv, AtRest
  <2> QED  BY <2>1, <2>2, <2>3 DEF DriveNext
<1>3. KeptIInv => DownloadKept
  BY DEF KeptIInv, Delivers, HandedOver, StreamSound, DownloadKept, Holding
<1> QED  BY <1>1, <1>2, <1>3, PTL DEF DriveSpec
=============================================================================
