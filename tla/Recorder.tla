------------------------------ MODULE Recorder ------------------------------
(***************************************************************************)
(* The files of recordings: sessions that create and write them            *)
(* (libguac/recording.c, socket-tee.c) and the guacenc or guaclog that     *)
(* read them (guacenc/encode.c, guaclog/interpret.c).  Both use POSIX      *)
(* locks on the whole file: F_WRLCK for the session, F_RDLCK for a reader. *)
(***************************************************************************)
EXTENDS Integers, FiniteSets

CONSTANTS
    Sessions, Readers,
    MaxSuffix       \* GUAC_COMMON_RECORDING_MAX_SUFFIX

ASSUME RecConsts == MaxSuffix \in Nat

VARIABLES
    files,          \* files that exist: 0 is the name itself, n the name with suffix n
    outputs,        \* files for which an output of guaclog exists
    rec,            \* sessions
    rdr             \* readers

recVars == <<files, outputs, rec, rdr>>

Names == 0 .. MaxSuffix

(* include: include_output; reuse: allow_write_existing; tee: the output   *)
(* of the client goes to the recording as well.                            *)
RecordingState ==
    [pc : {"idle", "open", "lock", "on", "closed", "failed"}, file : Names,
     include : BOOLEAN, reuse : BOOLEAN, tee : BOOLEAN, written : BOOLEAN]

RecInit ==
    /\ files = {}
    /\ outputs = {}
    /\ \E include, reuse \in BOOLEAN :
       rec = [s \in Sessions |-> [pc |-> "idle", file |-> 0, include |-> include, reuse |-> reuse,
                                  tee |-> FALSE, written |-> FALSE]]
    /\ \E force \in BOOLEAN :
       rdr = [r \in Readers |-> [pc |-> "idle", file |-> 0, force |-> force]]

Writers(f) == {s \in Sessions : rec[s].pc = "on" /\ rec[s].file = f}
ReadLocks(f) == {r \in Readers : rdr[r].pc \in {"locked", "reading"} /\ rdr[r].file = f /\ ~rdr[r].force}

-----------------------------------------------------------------------------
(* guac_recording_create makes the directory and opens the file.           *)
Create(s, ok) ==
    /\ rec[s].pc = "idle"
    /\ rec' = [rec EXCEPT ![s].pc = IF ok THEN "open" ELSE "failed"]
    /\ UNCHANGED <<files, outputs, rdr>>

(* Mutant: the loop also ends with a name that is taken.                   *)
MutOpen(s) ==
    LET f == rec[s].file IN
    /\ rec[s].pc = "open"
    /\ files' = files \cup {f}
    /\ rec' = [rec EXCEPT ![s].pc = "lock"]
    /\ UNCHANGED <<outputs, rdr>>

(* guac_recording_open tries the name and its suffixes in turn; with       *)
(* O_EXCL unless existing files may be written.                            *)
Open(s) ==
    LET f == rec[s].file IN
    /\ rec[s].pc = "open"
    /\ IF rec[s].reuse \/ f \notin files
       THEN /\ files' = files \cup {f}
            /\ rec' = [rec EXCEPT ![s].pc = "lock"]
       ELSE /\ rec' = IF f < MaxSuffix THEN [rec EXCEPT ![s].file = f + 1]
                      ELSE [rec EXCEPT ![s].pc = "failed"]
            /\ UNCHANGED files
    /\ UNCHANGED <<outputs, rdr>>

(* The lock is not waited for.  A recording with output takes the place of *)
(* the client's socket.                                                    *)
Lock(s) ==
    LET f == rec[s].file IN
    /\ rec[s].pc = "lock"
    /\ rec' = IF Writers(f) = {} /\ ReadLocks(f) = {}
              THEN [rec EXCEPT ![s].pc = "on", ![s].tee = rec[s].include]
              ELSE [rec EXCEPT ![s].pc = "failed"]
    /\ UNCHANGED <<files, outputs, rdr>>

(* guac_socket_tee writes to the user's socket and the recording's.        *)
TeeWrite(s) ==
    /\ rec[s].pc = "on" /\ rec[s].tee
    /\ rec' = [rec EXCEPT ![s].written = TRUE]
    /\ UNCHANGED <<files, outputs, rdr>>

(* guac_recording_report_mouse, _touch and _key                            *)
Report(s) ==
    /\ rec[s].pc = "on"
    /\ rec' = [rec EXCEPT ![s].written = TRUE]
    /\ UNCHANGED <<files, outputs, rdr>>

(* guac_recording_free closes the socket itself only when no tee has it;   *)
(* the tee goes with the socket of the client.                             *)
Free(s) ==
    /\ rec[s].pc = "on"
    /\ rec' = [rec EXCEPT ![s].pc = "closed", ![s].tee = FALSE]
    /\ UNCHANGED <<files, outputs, rdr>>

-----------------------------------------------------------------------------
(* guacenc and guaclog                                                     *)

OpenInput(r) ==
    /\ rdr[r].pc = "idle"
    /\ \E f \in files : rdr' = [rdr EXCEPT ![r] = [@ EXCEPT !.pc = "opened", !.file = f]]
    /\ UNCHANGED <<files, outputs, rec>>

LockInput(r) ==
    /\ rdr[r].pc = "opened"
    /\ rdr' = [rdr EXCEPT ![r].pc =
                 IF rdr[r].force \/ Writers(rdr[r].file) = {} THEN "locked" ELSE "refused"]
    /\ UNCHANGED <<files, outputs, rec>>

(* guaclog_state_alloc creates its output, which must not exist.           *)
OpenOutput(r) ==
    LET f == rdr[r].file IN
    /\ rdr[r].pc = "locked"
    /\ IF f \in outputs
       THEN rdr' = [rdr EXCEPT ![r].pc = "refused"] /\ UNCHANGED outputs
       ELSE rdr' = [rdr EXCEPT ![r].pc = "reading"] /\ outputs' = outputs \cup {f}
    /\ UNCHANGED <<files, rec>>

ReadToEnd(r) ==
    /\ rdr[r].pc = "reading"
    /\ rdr' = [rdr EXCEPT ![r].pc = "done"]
    /\ UNCHANGED <<files, outputs, rec>>

RecNext ==
    \/ \E s \in Sessions : \/ \E ok \in BOOLEAN : Create(s, ok)
                           \/ Open(s) \/ Lock(s) \/ TeeWrite(s) \/ Report(s) \/ Free(s)
    \/ \E r \in Readers : OpenInput(r) \/ LockInput(r) \/ OpenOutput(r) \/ ReadToEnd(r)

RecSpec == RecInit /\ [][RecNext]_recVars

-----------------------------------------------------------------------------
(* A recording is written by one session, and not read meanwhile by a      *)
(* guacenc or guaclog without -f: the reader of a file in progress is      *)
(* turned away, and a session does not begin to write a file that is read. *)
(* What one session wrote no other writes over, unless it was told to      *)
(* write existing files.                                                   *)
RecordingsApart ==
    /\ \A f \in Names :
          /\ Cardinality(Writers(f)) <= 1
          /\ Writers(f) # {} => ReadLocks(f) = {}
    /\ \A s, t \in Sessions :
          /\ s # t
          /\ rec[s].pc \in {"lock", "on", "closed"} /\ rec[t].pc \in {"lock", "on", "closed"}
          /\ rec[s].file = rec[t].file
          => rec[s].reuse
=============================================================================
