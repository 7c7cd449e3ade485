------------------------------ MODULE RdpDrive ------------------------------
(***************************************************************************)
(* The drive that an RDP connection shares with the remote desktop         *)
(* (guac_rdp_fs): a table of open files used by two parties.  The RDP      *)
(* server sends I/O requests over the RDPDR channel and gets a completion  *)
(* for each; the owner of the connection uploads, downloads and lists      *)
(* through streams that advance with every acknowledgement.  Files the     *)
(* server writes below \Download are handed to the owner when the server   *)
(* closes them and are then removed from the drive.                        *)
(*                                                                         *)
(* The server's requests are handled on the RDP thread, the owner's on a   *)
(* thread of its own, and the table has no lock.  The ids of the entries   *)
(* come from a pool that has one, so two handlers work on two entries and  *)
(* are one step each; but open_files, which is looked at before an entry   *)
(* is made, is changed after that, and without the lock: a handler leaves  *)
(* its changes of it behind, and they follow in steps that read it and     *)
(* write it.  The drive itself (names, inodes, open, unlink, rename...) is *)
(* the operating system's.                                                 *)
(***************************************************************************)
EXTENDS Integers, Sequences, FiniteSets, FiniteSetsExt, SequencesExt

CONSTANTS
    MaxFiles,        \* GUAC_RDP_FS_MAX_FILES
    MaxDepth,        \* GUAC_RDP_MAX_PATH_DEPTH
    PathSpace,       \* bound: the normalised paths the drive can hold
    MaxInodes,       \* bound: files and directories ever made
    MaxLen,          \* bound: length of a file, in buffers
    MaxStreams,      \* bound: streams ever opened by or for the owner
    JsonCap,         \* properties that fit the JSON buffer of a listing
    DisableDownload, DisableUpload,
    Printing,        \* settings->printing_enabled
    MaxCalls,        \* bound: requests and streams begun
    Creates,         \* path, access, disposition and directory option of a create
    Renames, Patterns,         \* new names and patterns the server sends
    OwnerPaths, UploadNames,   \* paths and names the owner sends
    Contents, OwnerContents    \* buffers of the server and of the owner

ASSUME DriveConsts == MaxFiles \in Nat /\ MaxStreams \in Nat

VARIABLES drive, calls

driveVars == <<drive, calls>>

(* ---------------------------- paths ------------------------------------ *)

\* A path as it arrives: absolute or relative, and its components.  The
\* component "c:" stands for any that holds a colon.
Abs(comps) == [abs |-> TRUE, comps |-> comps]
BadPath == <<"bad_path">>

NormalizeStep(c, acc) ==
    IF acc = BadPath \/ c = "c:" THEN BadPath
    ELSE IF c = ".." THEN IF acc = <<>> THEN acc ELSE Front(acc)
    ELSE IF c \in {".", ""} THEN acc
    ELSE IF Len(acc) >= MaxDepth THEN BadPath ELSE Append(acc, c)

\* guac_rdp_fs_normalize_path
NormalizePath(path) ==
    IF ~path.abs THEN BadPath ELSE FoldLeft(LAMBDA acc, c: NormalizeStep(c, acc), <<>>, path.comps)

\* guac_rdp_fs_convert_path
ConvertPath(parent, name) == NormalizePath(Abs(Append(parent, name)))

\* guac_rdp_fs_append_filename: "." and ".." name no file of the directory
AppendFilename(dir, name) == IF name \in {".", ".."} THEN BadPath ELSE Append(dir, name)

\* __generate_upload_path: whatever the name holds, one file of the root
UploadPath(name) == Abs(<<name>>)

InDownload(comps) == Len(comps) >= 2 /\ comps[1] = "Download"

\* The paths of the drive are normalised, hold their directories, the root and
\* \Download, and every path a request names is one of them or refused.
ASSUME DrivePaths ==
    /\ MaxLen \in Nat
    /\ PathSpace \subseteq Seq(STRING) /\ <<>> \in PathSpace /\ <<"Download">> \in PathSpace
    /\ \A p \in PathSpace : NormalizePath(Abs(p)) = p /\ p # BadPath /\ (p # <<>> => Front(p) \in PathSpace)
    /\ \A path \in {c[1] : c \in Creates} \cup OwnerPaths \cup {UploadPath(name) : name \in UploadNames} :
          NormalizePath(Abs(path.comps)) \in PathSpace \cup {BadPath}
    /\ \A path \in Renames : NormalizePath(path) \in PathSpace \cup {BadPath}

(* -------------------------- error codes -------------------------------- *)

ENFILE == -1
ENOENT == -2
EINVAL == -8
ENOSYS == -9

ErrorCodes == [ENFILE |-> -1, ENOENT |-> -2, ENOTDIR |-> -3, ENOSPC |-> -4, EISDIR |-> -5,
               EACCES |-> -6, EEXIST |-> -7, EINVAL |-> -8, ENOSYS |-> -9, ENOTSUP |-> -10]

GetErrorcode(err) == IF err \in DOMAIN ErrorCodes THEN ErrorCodes[err] ELSE EINVAL

Statuses == <<"NO_MORE_FILES", "NO_SUCH_FILE", "NOT_A_DIRECTORY", "DISK_FULL",
              "FILE_IS_A_DIRECTORY", "ACCESS_DENIED", "NAME_COLLISION",
              "INVALID_PARAMETER", "NOT_IMPLEMENTED", "NOT_SUPPORTED">>

GetStatus(code) == IF -code \in DOMAIN Statuses THEN Statuses[-code] ELSE "INVALID_PARAMETER"

(* ----------------- the drive of the operating system ------------------- *)

\* s.names maps a normalised path to its inode, 0 when there is none.
Exists(s, p) == s.names[p] # 0
IsDir(s, p) == Exists(s, p) /\ s.inode[s.names[p]].dir
HasParent(s, p) == p = <<>> \/ IsDir(s, Front(p))
Children(s, p) == {q \in PathSpace : Exists(s, q) /\ Len(q) = Len(p) + 1 /\ Front(q) = p}
NamesIn(s, ino) ==
    {Last(q) : q \in {r \in PathSpace : r # <<>> /\ Exists(s, r) /\ s.names[Front(r)] = ino}}

MakeInode(s, p, dir) ==
    [s EXCEPT !.inode = Append(@, [dir |-> dir, data |-> <<>>]),
              !.names[p] = Len(s.inode) + 1]

Unlinked(s, p) == [s EXCEPT !.names[p] = 0]

\* Every change of a file's content is noted in the downloads of that file.
SetData(s, ino, data) ==
    [s EXCEPT !.inode[ino].data = data,
              !.strm = [k \in DOMAIN @ |-> IF @[k].src = ino THEN [@[k] EXCEPT !.clean = FALSE] ELSE @[k]]]

\* The error of open(2), or "none".
PosixOpenError(s, p, f) ==
    IF ~HasParent(s, p) THEN "ENOENT"
    ELSE IF ~Exists(s, p) THEN IF f.creat THEN "none" ELSE "ENOENT"
    ELSE IF f.creat /\ f.excl THEN "EEXIST"
    ELSE IF IsDir(s, p) /\ (f.write \/ f.creat \/ f.trunc) THEN "EISDIR" ELSE "none"

PosixOpen(s, p, f) ==
    IF ~Exists(s, p) THEN MakeInode(s, p, FALSE)
    ELSE IF f.trunc /\ ~IsDir(s, p) THEN SetData(s, s.names[p], <<>>) ELSE s

PosixRenameError(s, p, q) ==
    IF ~Exists(s, p) \/ ~HasParent(s, q) THEN "ENOENT"
    ELSE IF p # q /\ IsPrefix(p, q) THEN "EINVAL"
    ELSE IF IsDir(s, p) /\ Exists(s, q) /\ ~IsDir(s, q) THEN "ENOTDIR"
    ELSE IF ~IsDir(s, p) /\ IsDir(s, q) THEN "EISDIR"
    ELSE IF p # q /\ Children(s, q) # {} THEN "ENOTEMPTY" ELSE "none"

PosixRename(s, p, q) ==
    LET from(r) == p \o SubSeq(r, Len(q) + 1, Len(r)) IN
    IF p = q THEN s
    ELSE [s EXCEPT !.names = [r \in PathSpace |->
             IF IsPrefix(q, r) THEN IF from(r) \in PathSpace THEN s.names[from(r)] ELSE 0
             ELSE IF IsPrefix(p, r) THEN 0 ELSE s.names[r]]]

(* ------------------------ the table of files --------------------------- *)

\* guac_rdp_fs_file: the inode and the access mode behind fd, the path it was
\* opened under, the entries its directory stream has left (dir = NULL: none read yet), the
\* pattern of the last initial query and the bytes written.
NoFile == [ino |-> 0, mode |-> "read", path |-> <<>>, isdir |-> FALSE,
           reading |-> FALSE, entries |-> <<>>, pat |-> {}, written |-> 0]

NewFile(s, p, mode) ==
    [NoFile EXCEPT !.ino = s.names[p], !.path = p, !.isdir = IsDir(s, p), !.mode = mode]

\* guac_rdp_fs: the table, the pool of its ids and the count of open files, n;
\* inc and dec are the changes of it that the handler at work has come to, and
\* lost is history: how many more files are open for the updates that were lost.
NewFs == [files |-> [i \in 0 .. MaxFiles - 1 |-> NoFile], next |-> 0, free |-> <<>>, n |-> 0,
          inc |-> 0, dec |-> 0, lost |-> 0]

\* open_files as the handler at work reads it.
OpenFiles(s) == s.fs.n + s.fs.inc - s.fs.dec

\* What the program does after it wrote beyond the table, or followed a NULL
\* stream, is not modelled.
Faulted(s, what) == [s EXCEPT !.fault = what]

ValidId(id) == id \in 0 .. MaxFiles - 1

\* The flags open(2) gets for an access and a disposition.
Flags(access, disp) ==
    [write |-> access \in {"write", "all"},
     creat |-> disp \in {"CREATE", "OPEN_IF", "OVERWRITE_IF", "SUPERSEDE"},
     excl  |-> disp = "CREATE",
     trunc |-> disp \in {"OVERWRITE", "OVERWRITE_IF", "SUPERSEDE"}]

Dispositions == {"CREATE", "OPEN", "OPEN_IF", "OVERWRITE", "OVERWRITE_IF", "SUPERSEDE"}

\* The conditions under which guac_rdp_fs_open gives up before the drive.
OpenRefused(s, path, disp) ==
    IF OpenFiles(s) >= MaxFiles THEN ENFILE
    ELSE IF ~path.abs /\ path.comps # <<>> THEN ENOENT
    ELSE IF NormalizePath(Abs(path.comps)) = BadPath THEN ENOENT
    ELSE IF disp \notin Dispositions THEN ENOSYS ELSE 0

\* The entry made for a descriptor that open(2) returned.  The pool gives out
\* ids without end.
TableFull(s) == s.fs.free = <<>> /\ s.fs.next >= MaxFiles
AddEntry(s, p, mode) ==
    LET new == s.fs.free = <<>>
        id  == IF new THEN s.fs.next ELSE Head(s.fs.free) IN
    IF TableFull(s) THEN [s |-> Faulted(s, "overrun"), id |-> MaxFiles]
    ELSE [s |-> [s EXCEPT !.fs.files[id] = NewFile(s, p, mode), !.fs.inc = @ + 1, !.open = @ \cup {id},
                          !.fs.next = IF new THEN @ + 1 ELSE @,
                          !.fs.free = IF new THEN @ ELSE Tail(@)],
          id |-> id]

MkdirError(s, p, excl) ==
    IF ~HasParent(s, p) THEN "ENOENT" ELSE IF Exists(s, p) /\ excl THEN "EEXIST" ELSE "none"

\* open(2) and the entry for what it returns.
OpenEntry(s, p, f, mode) ==
    LET err == PosixOpenError(s, p, f) IN
    IF err # "none" THEN [s |-> s, id |-> GetErrorcode(err)]
    ELSE AddEntry(PosixOpen(s, p, f), p, mode)

\* A directory met unasked is opened again without the write flags.
OpenAgain(s, p, f, access) ==
    LET met == PosixOpenError(s, p, f) = "EISDIR" IN
    OpenEntry(s, p, IF met THEN [f EXCEPT !.write = FALSE] ELSE f, IF met THEN "read" ELSE access)

\* A directory asked for is made first and then opened without O_CREAT and
\* O_EXCL.
OpenDirectory(s, p, f, access) ==
    LET err == MkdirError(s, p, f.excl) IN
    IF err # "none" THEN [s |-> s, id |-> GetErrorcode(err)]
    ELSE OpenAgain(IF Exists(s, p) THEN s ELSE MakeInode(s, p, TRUE), p,
                   [f EXCEPT !.creat = FALSE, !.excl = FALSE], access)

Superseded(s, p, disp) ==
    IF disp = "SUPERSEDE" /\ Exists(s, p) /\ ~IsDir(s, p) THEN Unlinked(s, p) ELSE s

\* guac_rdp_fs_open
Open(s, path, access, disp, dirOpt) ==
    LET p == NormalizePath(Abs(path.comps))
        f == Flags(access, disp) IN
    IF OpenRefused(s, path, disp) # 0 THEN [s |-> s, id |-> OpenRefused(s, path, disp)]
    ELSE IF dirOpt /\ f.creat THEN OpenDirectory(Superseded(s, p, disp), p, f, access)
    ELSE OpenAgain(Superseded(s, p, disp), p, f, access)

\* Inodes are bounded: an open that could make more is not tried.
RoomToOpen(s) == Len(s.inode) + 2 <= MaxInodes

\* guac_rdp_fs_close
CloseFile(s, id) ==
    IF ~ValidId(id) THEN s
    ELSE [s EXCEPT !.fs.free = Append(@, id), !.fs.dec = @ + 1, !.open = @ \ {id}]

\* What read(2), write(2) and ftruncate(2) refuse: an id out of range, a
\* directory, and a descriptor opened for the other direction.
ReadError(s, id) ==
    IF ~ValidId(id) THEN EINVAL
    ELSE IF s.inode[s.fs.files[id].ino].dir THEN GetErrorcode("EISDIR")
    ELSE IF s.fs.files[id].mode = "write" THEN GetErrorcode("EBADF") ELSE 0
WriteError(s, id) ==
    IF ~ValidId(id) \/ s.fs.files[id].mode = "read" THEN EINVAL ELSE 0

\* guac_rdp_fs_read: the buffer at the offset, empty at the end of the file
ReadFile(s, id, off) ==
    LET data == s.inode[s.fs.files[id].ino].data IN
    IF off < Len(data) THEN <<data[off + 1]>> ELSE <<>>

\* guac_rdp_fs_write: a write past the end leaves zeros in between
WriteFile(s, id, off, v) ==
    LET ino  == s.fs.files[id].ino
        data == s.inode[ino].data
        n    == IF off + 1 > Len(data) THEN off + 1 ELSE Len(data) IN
    [SetData(s, ino, [i \in 1 .. n |-> IF i = off + 1 THEN v
                                       ELSE IF i <= Len(data) THEN data[i] ELSE 0])
       EXCEPT !.fs.files[id].written = @ + 1]

\* guac_rdp_fs_rename: by the path the file was opened under, which stays
RenameFile(s, id, path) ==
    LET p == s.fs.files[id].path
        q == NormalizePath(path) IN
    IF q = BadPath THEN [s |-> s, code |-> ENOENT]
    ELSE IF PosixRenameError(s, p, q) # "none" THEN [s |-> s, code |-> GetErrorcode(PosixRenameError(s, p, q))]
    ELSE [s |-> PosixRename(s, p, q), code |-> 0]

\* guac_rdp_fs_delete: rmdir or unlink of the path it was opened under
DeleteFile(s, id) ==
    LET f == s.fs.files[id]
        err == IF ~Exists(s, f.path) THEN "ENOENT"
               ELSE IF f.isdir /\ ~IsDir(s, f.path) THEN "ENOTDIR"
               ELSE IF ~f.isdir /\ IsDir(s, f.path) THEN "EISDIR"
               ELSE IF f.isdir /\ Children(s, f.path) # {} THEN "ENOTEMPTY" ELSE "none" IN
    IF err # "none" THEN [s |-> s, code |-> GetErrorcode(err)]
    ELSE [s |-> Unlinked(s, f.path), code |-> 0]

\* guac_rdp_fs_truncate
TruncateFile(s, id, len) ==
    LET ino == s.fs.files[id].ino
        data == s.inode[ino].data IN
    IF WriteError(s, id) < 0 THEN [s |-> s, code |-> WriteError(s, id)]
    ELSE [s |-> SetData(s, ino, [i \in 1 .. len |-> IF i <= Len(data) THEN data[i] ELSE 0]), code |-> 0]

\* The names fdopendir and readdir give, in an order the drive chooses.
DirEntries(s, id) ==
    <<".", "..">> \o SetToSeq(NamesIn(s, s.fs.files[id].ino))

\* guac_rdp_fs_read_dir opens the directory stream with the first entry.
DirStream(s, id) == IF s.fs.files[id].reading THEN s.fs.files[id].entries ELSE DirEntries(s, id)
SetDirStream(s, id, entries) ==
    [s EXCEPT !.fs.files[id] = [@ EXCEPT !.reading = TRUE, !.entries = entries]]

(* --------------------------- the owner --------------------------------- *)

\* The status a stream of the owner carries (guac_rdp_upload_status,
\* guac_rdp_download_status, guac_rdp_ls_status).  got is what the owner has
\* received; src and clean are history: the inode the download was started
\* for, and whether it kept its content since.
NoStream == [kind |-> "none", id |-> 0, off |-> 0, got |-> <<>>, json |-> 0, listed |-> {},
             src |-> 0, clean |-> TRUE]

FreeSlots(s) == {k \in 1 .. MaxStreams : s.strm[k].kind = "none"}
NextSlot(s) == Min(FreeSlots(s))

\* guac_user_alloc_stream gives NULL when the owner has GUAC_USER_MAX_STREAMS
\* streams open, for downloads or for anything else it is sent: none is TRUE.
\* guac_rdp_download_to_user, run by the RDP thread for the owner
BeginDownload(s, o, none) ==
    IF ~ValidId(o.id) THEN o.s
    ELSE IF none THEN Faulted(s, "null_stream")
    ELSE [o.s EXCEPT !.strm[NextSlot(o.s)] =
             [NoStream EXCEPT !.kind = "down", !.id = o.id, !.src = o.s.fs.files[o.id].ino]]
DownloadToUser(s, p, none) ==
    IF ~s.owner \/ DisableDownload THEN s
    ELSE BeginDownload(s, Open(s, Abs(p), "read", "OPEN", FALSE), none)

(* ----------------- requests of the RDP server -------------------------- *)

\* guac_rdpdr_new_io_completion and the write of it: the status and the
\* values that follow.  NoReply: the handler returned without a completion.
Reply(status, vals) == [status |-> status, vals |-> vals]
NoReply == Reply("none", <<>>)
Coded(code) == IF code < 0 THEN Reply(GetStatus(code), <<0>>) ELSE Reply("SUCCESS", <<code>>)

\* guac_rdpdr_fs_process_create.  Opening the root makes \Download.
Closed(o) == CloseFile(o.s, o.id)
MakeDownload(s) == Closed(Open(s, Abs(<<"Download">>), "read", "OPEN_IF", TRUE))
Created(o) ==
    IF ~ValidId(o.id) THEN [o.s EXCEPT !.reply = Coded(o.id)]
    ELSE [(IF o.s.fs.files[o.id].path = <<>> /\ ~DisableDownload THEN MakeDownload(o.s) ELSE o.s)
             EXCEPT !.reply = Coded(o.id), !.srv = @ \cup {o.id}]
ProcessCreate(s, path, access, disp, dirOpt) == Created(Open(s, path, access, disp, dirOpt))

\* guac_rdpdr_fs_process_read
ProcessRead(s, id, off) ==
    [s EXCEPT !.reply = IF ReadError(s, id) < 0 THEN Coded(ReadError(s, id))
                        ELSE Reply("SUCCESS", ReadFile(s, id, off))]

\* guac_rdpdr_fs_process_write
ProcessWrite(s, id, off, v) ==
    IF WriteError(s, id) < 0 THEN [s EXCEPT !.reply = Coded(WriteError(s, id))]
    ELSE [WriteFile(s, id, off, v) EXCEPT !.reply = Coded(1)]

\* A file the server wrote below \Download is downloaded and removed when it
\* is closed.  History: the download starts for sure, for the owner is there,
\* the table has room and the path still names the file.
GoesToOwner(s, id) ==
    s.fs.files[id].written > 0 /\ InDownload(s.fs.files[id].path) /\ ~DisableDownload
HandsOver(s, id) ==
    LET f == s.fs.files[id] IN
    GoesToOwner(s, id) /\ s.owner /\ OpenFiles(s) < MaxFiles /\ s.names[f.path] = f.ino

\* Mutant: the file is removed before it is downloaded.
MutCloseDownloads(s, id, none) ==
    IF GoesToOwner(s, id)
    THEN DownloadToUser(DeleteFile(s, id).s, s.fs.files[id].path, none)
    ELSE s

\* guac_rdpdr_fs_process_close: a file written below \Download goes to the
\* owner and is removed, whatever became of the download.
CloseDownloads(s, id, none) ==
    IF ~GoesToOwner(s, id) THEN s
    ELSE LET t == DownloadToUser(s, s.fs.files[id].path, none)
         IN IF t.fault # "none" THEN t ELSE DeleteFile(t, id).s

CloseDone(s, t, id) ==
    [CloseFile(t, id) EXCEPT
        !.reply = Reply("SUCCESS", <<0>>),
        !.srv = @ \ {id},
        !.handed = IF HandsOver(s, id) THEN @ \cup {s.fs.files[id].ino} ELSE @,
        !.removed = IF GoesToOwner(s, id) THEN @ \cup {s.fs.files[id].ino} ELSE @]
ProcessClose(s, id, none) ==
    LET t == CloseDownloads(s, id, none) IN
    IF ~ValidId(id) THEN [s EXCEPT !.reply = NoReply]
    ELSE IF t.fault # "none" THEN t ELSE CloseDone(s, t, id)

\* guac_rdpdr_fs_process_volume_info and the five query handlers
VolumeClasses == {"volume", "size", "device", "attribute", "full_size"}
ProcessVolumeInfo(s, class) ==
    [s EXCEPT !.reply = IF class \in VolumeClasses THEN Reply("SUCCESS", <<>>) ELSE NoReply]

\* guac_rdpdr_fs_process_file_info: attributes as they were at the open
FileClasses == {"basic", "standard", "attribute_tag"}
ProcessFileInfo(s, id, class) ==
    [s EXCEPT !.reply = IF class \in FileClasses /\ ValidId(id)
                        THEN Reply("SUCCESS", <<IF s.fs.files[id].isdir THEN 1 ELSE 0>>) ELSE NoReply]

\* guac_rdpdr_fs_process_set_rename_info: a rename into \Download is a
\* download of the file, which keeps its name
SetRename(s, id, path, none) ==
    LET dl == InDownload(path.comps) /\ path.abs /\ ~DisableDownload
        r  == RenameFile(s, id, path) IN
    IF dl THEN IF ValidId(id) THEN [DownloadToUser(s, s.fs.files[id].path, none) EXCEPT !.reply = Coded(0)]
               ELSE [s EXCEPT !.reply = NoReply]
    ELSE IF ~ValidId(id) THEN [s EXCEPT !.reply = Coded(EINVAL)]
    ELSE [r.s EXCEPT !.reply = Coded(r.code)]

\* guac_rdpdr_fs_process_set_disposition_info
SetDisposition(s, id) ==
    IF ~ValidId(id) THEN [s EXCEPT !.reply = Coded(EINVAL)]
    ELSE LET r == DeleteFile(s, id) IN [r.s EXCEPT !.reply = Coded(r.code)]

\* guac_rdpdr_fs_process_set_end_of_file_info and ..._set_allocation_info
SetLength(s, id, len) ==
    IF ~ValidId(id) THEN [s EXCEPT !.reply = Coded(EINVAL)]
    ELSE LET r == TruncateFile(s, id, len) IN [r.s EXCEPT !.reply = Coded(r.code)]

\* The entries of a query that are passed over: they do not match the
\* pattern or cannot be opened.
EntryPath(s, id, name) == ConvertPath(s.fs.files[id].path, name)
Passed(s, id, pat, name) ==
    \/ EntryPath(s, id, name) \notin pat
    \/ Open(s, Abs(EntryPath(s, id, name)), "read", "OPEN", FALSE).id < 0

DirClasses == {"directory", "full", "both", "names"}

\* Mutant: the entry opened for its attributes is not closed again.
MutQueryEntry(o, class) ==
    [o.s EXCEPT !.reply = IF class \in DirClasses THEN Reply("SUCCESS", <<o.id>>) ELSE NoReply]
\* The answer with the attributes of an entry, which was opened for them and
\* is closed again.
QueryEntry(o, class) ==
    IF ~ValidId(o.id) THEN o.s
    ELSE [CloseFile(o.s, o.id) EXCEPT
            !.reply = IF class \in DirClasses
                      THEN Reply("SUCCESS", <<IF o.s.fs.files[o.id].isdir THEN 1 ELSE 0>>) ELSE NoReply]

\* The first entry left that is not passed over; none is left after the last.
QueryNext(s, id, class, left) ==
    LET pat == s.fs.files[id].pat
        k   == Min({i \in DOMAIN left : ~Passed(s, id, pat, left[i])} \cup {Len(left) + 1}) IN
    IF k > Len(left)
    THEN [SetDirStream(s, id, <<>>) EXCEPT !.reply = Reply("NO_MORE_FILES", <<0>>)]
    ELSE QueryEntry(Open(SetDirStream(s, id, SubSeq(left, k + 1, Len(left))),
                         Abs(EntryPath(s, id, left[k])), "read", "OPEN", FALSE), class)
QueryWith(s, id, class) == QueryNext(s, id, class, DirStream(s, id))

\* guac_rdpdr_fs_process_query_directory: one matching entry a request
ProcessQueryDirectory(s, id, class, initial, pat) ==
    IF ~ValidId(id) THEN [s EXCEPT !.reply = NoReply]
    ELSE QueryWith([s EXCEPT !.fs.files[id].pat = IF initial THEN pat ELSE @], id, class)

\* Requests answered without a look at the table: setting volume information,
\* locks and device control; change notifications, unknown functions and
\* PDUs that are too short get no completion.
FixedReply(fn) ==
    CASE fn \in {"set_volume", "lock"} -> Reply("NOT_SUPPORTED", <<0>>)
      [] fn = "control" -> Reply("INVALID_PARAMETER", <<0>>)
      [] fn = "set_basic" -> Reply("SUCCESS", <<0>>)
      [] OTHER -> NoReply
ProcessFixed(s, fn) == [s EXCEPT !.reply = FixedReply(fn)]

(* ----------------------- the RDPDR channel ----------------------------- *)

\* guac_rdpdr_process_connect and the two register functions: the devices of
\* the channel; an id is the place in the list.
ProcessConnect(printing, enabled) ==
    (IF printing THEN <<"printer">> ELSE <<>>) \o (IF enabled THEN <<"drive">> ELSE <<>>)

\* guac_rdpdr_process_device_iorequest: requests for a device the channel does
\* not have are dropped.
HasDevice(s, id) == id \in DOMAIN s.chan.devices

\* What the channel has told the server.  guac_rdpdr_process_server_announce,
\* ..._server_capability and ..._user_loggedon, in the server's order.
AnnounceReply == "announce_reply"
ClientName == "client_name"
ClientCapability == "capability"
DeviceList == "device_list"
ServerAnnounced(s) == [s EXCEPT !.chan.told = @ \cup {AnnounceReply, ClientName}]
ServerCapable(s) == [s EXCEPT !.chan.told = @ \cup {ClientCapability}]
UserLoggedOn(s) == [s EXCEPT !.chan.told = @ \cup {DeviceList}]

(* --------------------- instructions of the owner ----------------------- *)

\* guac_rdp_download_get_handler: a directory is listed, a file downloaded;
\* with downloads disabled the file just opened stays open.
GotFile(s, o, f, none) ==
    IF ~f.isdir /\ DisableDownload THEN [o.s EXCEPT !.leaked = @ \cup {o.id}]
    ELSE IF none THEN Faulted(s, "null_stream")
    ELSE [o.s EXCEPT !.strm[NextSlot(o.s)] =
            [NoStream EXCEPT !.kind = IF f.isdir THEN "ls" ELSE "down", !.id = o.id,
                             !.src = IF f.isdir THEN 0 ELSE f.ino]]
Got(s, o, none) == IF ~ValidId(o.id) THEN o.s ELSE GotFile(s, o, o.s.fs.files[o.id], none)
GetHandler(s, path, none) == Got(s, Open(s, path, "read", "OPEN", FALSE), none)

\* guac_rdp_upload_file_handler and guac_rdp_upload_put_handler
UploadTo(o) ==
    IF ~ValidId(o.id) THEN o.s
    ELSE [o.s EXCEPT !.strm[NextSlot(o.s)] = [NoStream EXCEPT !.kind = "up", !.id = o.id]]
BeginUpload(s, path) ==
    IF DisableUpload THEN s ELSE UploadTo(Open(s, path, "write", "OVERWRITE_IF", FALSE))

\* guac_rdp_upload_blob_handler; a directory met by O_CREAT was refused
UploadBlob(s, k, v) ==
    [WriteFile(s, s.strm[k].id, s.strm[k].off, v) EXCEPT !.strm[k].off = @ + 1]

\* guac_rdp_upload_end_handler
UploadEnd(s, k) == [CloseFile(s, s.strm[k].id) EXCEPT !.strm[k].kind = "ended"]

\* guac_rdp_download_ack_handler: the next buffer, or the end of the stream;
\* the file stays open when the stream ends or is refused.
DownloadAck(s, k, ok) ==
    LET t == s.strm[k]
        buf == ReadFile(s, t.id, t.off)
        done == [s EXCEPT !.leaked = @ \cup {t.id}] IN
    IF ~ok THEN [done EXCEPT !.strm[k].kind = "refused"]
    ELSE IF buf # <<>> THEN [s EXCEPT !.strm[k] = [t EXCEPT !.off = @ + 1, !.got = @ \o buf]]
    ELSE [done EXCEPT !.strm[k].kind = "ended"]

\* guac_rdp_ls_ack_handler: names go to the JSON buffer until one makes it
\* overflow into a blob; the entry read after that is dropped.
LsListed(s, k) ==
    LET t == s.strm[k]
        listable(n) == /\ AppendFilename(s.fs.files[t.id].path, n) # BadPath
                       /\ Open(s, Abs(Append(s.fs.files[t.id].path, n)), "read", "OPEN", FALSE).id >= 0 IN
    {i \in DOMAIN DirStream(s, t.id) : listable(DirStream(s, t.id)[i])}
LsNames(s, k, left, listed) ==
    LET t == s.strm[k]
        flushing == {i \in listed : t.json + Cardinality({j \in listed : j <= i}) > JsonCap}
        last == Min(flushing \cup {Len(left)})
        names == {left[i] : i \in {j \in listed : j <= last}} IN
    IF flushing # {} /\ last < Len(left)
    THEN [SetDirStream(s, t.id, SubSeq(left, last + 2, Len(left)))
             EXCEPT !.strm[k].listed = @ \cup names, !.strm[k].json = 1]
    ELSE [CloseFile(s, t.id) EXCEPT !.strm[k].listed = @ \cup names, !.strm[k].kind = "ended"]
\* Each name is opened and closed again; one of them stands for all in what it
\* does to the count.
LsOpened(s, listed) ==
    IF listed = {} THEN s
    ELSE IF TableFull(s) THEN Faulted(s, "overrun")
    ELSE [s EXCEPT !.fs.inc = @ + 1, !.fs.dec = @ + 1]
LsNext(s, k, listed) ==
    IF s.fault # "none" THEN s ELSE LsNames(s, k, DirStream(s, s.strm[k].id), listed)
LsAck(s, k, ok) ==
    IF ~ok THEN [CloseFile(s, s.strm[k].id) EXCEPT !.strm[k].kind = "refused"]
    ELSE LsNext(LsOpened(s, LsListed(s, k)), k, LsListed(s, k))

(* --------------------------- the system -------------------------------- *)

\* The threads, and the changes of open_files that a handler left behind: how
\* many, and what the thread has read of it.
Threads == {"rdp", "owner"}
NoneDue == [inc |-> 0, dec |-> 0, seen |-> <<>>]

\* The drive as guac_rdp_fs_alloc finds it: an empty directory, or what an
\* earlier connection left, \Download and perhaps a file of the root.
FoundDrives ==
    {<<>>, <<<<"Download">>>>, <<<<"Download">>, <<"a">>>>}
InitDrive(found) ==
    [chan |-> [devices |-> ProcessConnect(Printing, TRUE), told |-> {}],
     names |-> [p \in PathSpace |-> IF p = <<>> THEN 1
                                    ELSE IF \E i \in DOMAIN found : found[i] = p
                                         THEN 1 + CHOOSE i \in DOMAIN found : found[i] = p ELSE 0],
     inode |-> <<[dir |-> TRUE, data |-> <<>>]>>
               \o [i \in DOMAIN found |-> [dir |-> found[i] = <<"Download">>, data |-> <<>>]],
     fs |-> NewFs, open |-> {}, due |-> [t \in Threads |-> NoneDue], fault |-> "none",
     owner |-> TRUE, strm |-> [k \in 1 .. MaxStreams |-> NoStream],
     srv |-> {}, reply |-> NoReply, handed |-> {}, removed |-> {}, leaked |-> {}]

DriveInit ==
    /\ \E found \in FoundDrives : drive = InitDrive(found)
    /\ calls = 0

\* A thread runs a handler, which gets it to the state s, when it is through
\* with the one before.
Left(t, s) ==
    [s EXCEPT !.due[t] = [inc |-> s.fs.inc, dec |-> s.fs.dec, seen |-> <<>>], !.fs.inc = 0, !.fs.dec = 0]
Ran(t, s) ==
    /\ drive.fault = "none" /\ drive.due[t] = NoneDue
    /\ drive' = Left(t, s)

\* open_files++ and open_files--: the thread reads the count, and writes what
\* it makes of it, whatever the other did in between.
Look(t) ==
    /\ drive.fault = "none" /\ drive.due[t] # NoneDue /\ drive.due[t].seen = <<>>
    /\ drive' = [drive EXCEPT !.due[t].seen = <<drive.fs.n>>] /\ UNCHANGED calls

\* A handler opens before it closes.
Updated(due) ==
    IF due.inc > 0 THEN [due EXCEPT !.inc = @ - 1, !.seen = <<>>] ELSE [due EXCEPT !.dec = @ - 1, !.seen = <<>>]
Count(t) ==
    LET due == drive.due[t] IN
    /\ drive.fault = "none" /\ due.seen # <<>>
    /\ drive' = [drive EXCEPT !.fs.n = Head(due.seen) + (IF due.inc > 0 THEN 1 ELSE -1),
                              !.fs.lost = @ + (drive.fs.n - Head(due.seen)),
                              !.due[t] = Updated(due)]
    /\ UNCHANGED calls

\* Requests and streams begun are counted; a stream goes on without being.
Called(t, s) ==
    /\ calls < MaxCalls /\ calls' = calls + 1
    /\ Ran(t, s)
Continued(t, s) == Ran(t, s) /\ UNCHANGED calls

\* A request of the server for the device of the drive, which it has heard of.
Requested(s) ==
    /\ DeviceList \in drive.chan.told
    /\ \E id \in DOMAIN drive.chan.devices : HasDevice(drive, id) /\ drive.chan.devices[id] = "drive"
    /\ Called("rdp", s)

\* The server uses the ids it was given and has not closed; MaxFiles stands
\* for an id out of range.
ServerIds == drive.srv \cup {MaxFiles}
RoomForStream == FreeSlots(drive) # {}

Handshake ==
    \/ drive.chan.told = {} /\ Continued("rdp", ServerAnnounced(drive))
    \/ ClientName \in drive.chan.told /\ ClientCapability \notin drive.chan.told /\ Continued("rdp", ServerCapable(drive))
    \/ ClientCapability \in drive.chan.told /\ DeviceList \notin drive.chan.told /\ Continued("rdp", UserLoggedOn(drive))

Create(path, access, disp, dirOpt) ==
    /\ RoomToOpen(drive)
    /\ Requested(ProcessCreate(drive, path, access, disp, dirOpt))

Read == \E id \in ServerIds, off \in 0 .. MaxLen : Requested(ProcessRead(drive, id, off))

Write(v) == \E id \in ServerIds, off \in 0 .. MaxLen - 1 : Requested(ProcessWrite(drive, id, off, v))

Close ==
    /\ RoomForStream
    /\ \E id \in ServerIds, none \in BOOLEAN : Requested(ProcessClose(drive, id, none))

QueryInfo ==
    \/ \E class \in VolumeClasses \cup {"unknown"} : Requested(ProcessVolumeInfo(drive, class))
    \/ \E id \in ServerIds, class \in FileClasses \cup {"unknown"} : Requested(ProcessFileInfo(drive, id, class))

Rename(path) ==
    /\ RoomForStream
    /\ \E id \in ServerIds, none \in BOOLEAN : Requested(SetRename(drive, id, path, none))

Delete == \E id \in ServerIds : Requested(SetDisposition(drive, id))

SetEndOfFile == \E id \in ServerIds, len \in 0 .. MaxLen : Requested(SetLength(drive, id, len))

QueryDirectory(pat) ==
    \E id \in ServerIds, class \in {"both", "unknown"}, initial \in BOOLEAN :
        /\ ValidId(id) => drive.fs.files[id].isdir
        /\ Requested(ProcessQueryDirectory(drive, id, class, initial, pat))

OtherRequest ==
    \E fn \in {"set_volume", "lock", "control", "set_basic", "notify", "short"} : Requested(ProcessFixed(drive, fn))

Get(path) ==
    /\ drive.owner /\ RoomForStream
    /\ \E none \in BOOLEAN : Called("owner", GetHandler(drive, path, none))

Put(path) ==
    /\ drive.owner /\ RoomForStream /\ RoomToOpen(drive)
    /\ Called("owner", BeginUpload(drive, path))

Upload(name) == Put(UploadPath(name))

StreamOf(kind) == {k \in 1 .. MaxStreams : drive.owner /\ drive.strm[k].kind = kind}

Blob(v) == \E k \in StreamOf("up") : drive.strm[k].off < MaxLen /\ Continued("owner", UploadBlob(drive, k, v))

End == \E k \in StreamOf("up") : Continued("owner", UploadEnd(drive, k))

StreamAck ==
    \/ \E k \in StreamOf("down"), ok \in BOOLEAN : Continued("owner", DownloadAck(drive, k, ok))
    \/ \E k \in StreamOf("ls"), ok \in BOOLEAN : Continued("owner", LsAck(drive, k, ok))

\* The owner's connection ends: its streams are freed, with what they hold.
StreamsFreed(s) ==
    LET held == {k \in 1 .. MaxStreams : s.strm[k].kind \in {"up", "down", "ls"}} IN
    [s EXCEPT !.owner = FALSE,
              !.leaked = @ \cup {s.strm[k].id : k \in held},
              !.strm = [k \in DOMAIN @ |-> IF k \in held THEN [@[k] EXCEPT !.kind = "gone"] ELSE @[k]]]
OwnerGone == drive.owner /\ Continued("owner", StreamsFreed(drive))

ServerNext ==
    \/ Handshake
    \/ \E c \in Creates : Create(c[1], c[2], c[3], c[4])
    \/ Read \/ \E v \in Contents : Write(v)
    \/ Close \/ QueryInfo \/ Delete \/ SetEndOfFile \/ OtherRequest
    \/ \E p \in Renames : Rename(p)
    \/ \E pat \in Patterns : QueryDirectory(pat)

OwnerNext ==
    \/ \E p \in OwnerPaths : Get(p) \/ Put(p)
    \/ \E name \in UploadNames : Upload(name)
    \/ \E v \in OwnerContents : Blob(v)
    \/ End \/ StreamAck \/ OwnerGone

CountNext == \E t \in Threads : Look(t) \/ Count(t)

DriveNext == ServerNext \/ OwnerNext \/ CountNext

DriveSpec == DriveInit /\ [][DriveNext]_driveVars

(* -------------------------- properties --------------------------------- *)

Holding(kinds) == {k \in 1 .. MaxStreams : drive.strm[k].kind \in kinds}

\* The changes of open_files that are still to come.
Uncounted(s) == s.due["rdp"].inc - s.due["rdp"].dec + s.due["owner"].inc - s.due["owner"].dec

\* fs.c, two threads without a lock: every id the server or a stream holds is
\* open, no two of them hold the same one, and an open entry nobody holds is
\* one a download or a departed owner left behind.  open_files is off from
\* the open entries only by what the threads have still to count and by the
\* updates that overlapped, and the table is overrun only when it is too low.
HandlesSound ==
    LET held == Holding({"up", "down", "ls"}) IN
    /\ drive.fs.n + Uncounted(drive) + drive.fs.lost = Cardinality(drive.open)
    /\ drive.fault = "overrun" => drive.fs.n < Cardinality(drive.open)
    /\ drive.open \subseteq 0 .. MaxFiles - 1
    /\ drive.open = drive.srv \cup {drive.strm[k].id : k \in held} \cup drive.leaked
    /\ \A k \in held : drive.strm[k].id \notin drive.srv \cup drive.leaked
    /\ \A k, l \in held : drive.strm[k].id = drive.strm[l].id => k = l
    /\ drive.srv \cap drive.leaked = {}

\* fs.h:200-203 calls open_files the number of currently open files, and
\* fs.c:234 trusts it to keep the ids within the table.  It is not checked:
\* two handlers that overlap refute both halves.
OpenFilesIsTheNumber ==
    /\ (\A t \in Threads : drive.due[t] = NoneDue) => drive.fs.n = Cardinality(drive.open)
    /\ drive.fault # "overrun"

\* rdpdr-fs-messages.c:269-278: a file that the server wrote below \Download
\* and closes while the owner is there, the table has room for it by its
\* count and its name still leads to it, is not lost: it is removed only when
\* a stream for the owner has it.  And whatever a download that was started
\* has delivered is the beginning of the file, and all of it when it ended,
\* if nobody changed the file meanwhile.
DownloadKept ==
    /\ \A i \in drive.handed : \E k \in 1 .. MaxStreams : drive.strm[k].src = i
    /\ \A k \in Holding({"down", "ended", "refused", "gone"}) :
          drive.strm[k].src # 0 /\ drive.strm[k].clean =>
             /\ IsPrefix(drive.strm[k].got, drive.inode[drive.strm[k].src].data)
             /\ drive.strm[k].kind = "ended" => drive.strm[k].got = drive.inode[drive.strm[k].src].data

\* The same of every file that is removed on its close, which the code does
\* not keep: it is removed also when there is no owner to have it, or no entry
\* to read it through (rdpdr-fs-messages.c:273-274).  It is not checked.
EveryDownloadKept == \A i \in drive.removed : \E k \in 1 .. MaxStreams : drive.strm[k].src = i
=============================================================================
