------------------------------ MODULE RdpPrint ------------------------------
(***************************************************************************)
(* A print job of an RDP connection.  The RDP thread (rpc) writes what the *)
(* server prints into a filter process; the output thread (tpc) reads the  *)
(* filter's PDF and sends it to the owner of the connection, one blob for  *)
(* each acknowledgement; the owner's thread acknowledges or aborts; and    *)
(* closing the job joins the output thread.                                *)
(***************************************************************************)
EXTENDS Integers, Sequences, SequencesExt

CONSTANTS
    PipeCap,       \* capacity of the pipes to and from the filter
    MaxWrites,     \* bound: print requests of the server
    MaxJobs        \* bound: jobs created

VARIABLES
    job,      \* the guac_rdp_print_job of rdp_client->active_job
    filter,   \* the filter process: its state and the pipes to and from it
    rpc,      \* the RDP thread: idle, or inside write or join
    tpc,      \* the output thread
    tbuf,     \* its buffer
    owner,    \* the owner: whether it is there, and what it received
    jobs, writes

printVars == <<job, filter, rpc, tpc, tbuf, owner, jobs, writes>>

\* guac_rdp_print_job_state
States == {"WAITING_FOR_ACK", "ACK_RECEIVED", "CLOSED"}

\* guac_rdp_print_job, with the two descriptors open or closed; cut: killed,
\* or left by its output thread before the filter had ended.
NoJob == [live |-> FALSE, state |-> "CLOSED", infd |-> FALSE, outfd |-> FALSE,
          received |-> 0, stream |-> FALSE, filename |-> "default", cut |-> FALSE]
NewJob == [live |-> TRUE, state |-> "WAITING_FOR_ACK", infd |-> TRUE, outfd |-> TRUE,
           received |-> 0, stream |-> TRUE, filename |-> "default", cut |-> FALSE]

NoFilter == [run |-> "none", in |-> <<>>, out |-> <<>>]

\* The owner's side of the job's stream: what it has received, the answers
\* it owes, those it still owes to streams before this one (whose index this
\* one has been given again), and how many of these this job took for its own.
NewOwner == [here |-> TRUE, begun |-> FALSE, name |-> "default", recv |-> <<>>,
             owed |-> 0, late |-> 0, credited |-> 0, ended |-> FALSE]

PrintInit ==
    /\ job = NoJob /\ filter = NoFilter
    /\ rpc = "idle" /\ tpc = "none" /\ tbuf = 0
    /\ owner = NewOwner
    /\ jobs = 0 /\ writes = 0

(* ----------------------- the state of the job -------------------------- *)

\* guac_rdp_print_job_set_state: the signal wakes the output thread if it
\* waits for it.
MutSetState(j, state) ==
    /\ job' = [j EXCEPT !.state = state]
    /\ UNCHANGED tpc
SetState(j, state) ==
    /\ job' = [j EXCEPT !.state = state]
    /\ tpc' = IF tpc = "blocked" THEN "woken" ELSE tpc

\* guac_rdp_print_job_kill: the filter dies and both descriptors are closed.
Killed(j) == [j EXCEPT !.infd = FALSE, !.outfd = FALSE, !.cut = TRUE]
KillFilter == filter' = [filter EXCEPT !.run = IF @ = "none" THEN @ ELSE "dead", !.in = <<>>]
Kill(j) == SetState(Killed(j), "CLOSED") /\ KillFilter

\* The same, run by the output thread itself, which then goes on to next.
KillSelf(next) ==
    /\ job' = [Killed(job) EXCEPT !.state = "CLOSED"]
    /\ tpc' = next
    /\ KillFilter

(* ------------------------- the RDP thread ------------------------------ *)

\* guac_rdpdr_process_print_job_create and guac_rdp_print_job_alloc, for a
\* server that closes one job before it opens the next.
JobCreate ==
    /\ rpc = "idle" /\ ~job.live /\ jobs < MaxJobs
    /\ jobs' = jobs + 1
    /\ \/ /\ ~owner.here
          /\ UNCHANGED <<job, filter, tpc, owner>>
       \/ \* no stream, pipe or process could be had
          UNCHANGED <<job, filter, tpc, owner>>
       \/ /\ owner.here
          /\ job' = NewJob
          /\ filter' = [NoFilter EXCEPT !.run = "run"]
          /\ tpc' = "read"
          /\ owner' = [NewOwner EXCEPT !.late = owner.late + owner.owed]
    /\ UNCHANGED <<rpc, tbuf, writes>>

\* guac_rdp_print_job_read_filename: the title of the document, if its first
\* bytes hold one, names the file.
Titled(j, titled) == IF titled THEN [j EXCEPT !.filename = "title"] ELSE j

\* guac_rdpdr_process_print_job_write up to the write(2): the first data
\* begins the owner's stream, or kills the job when the owner has gone.
\* write(2) is called with the message lock released.
JobWrite ==
    /\ rpc = "idle" /\ writes < MaxWrites
    /\ IF ~job.live
       THEN writes' = writes + 1 /\ UNCHANGED <<rpc, job, owner, filter, tpc>>
       ELSE \E titled \in BOOLEAN :
              LET j == IF job.received = 0 THEN Titled(job, titled) ELSE job
                  k == [j EXCEPT !.received = @ + 1] IN
              /\ rpc' = "write"
              /\ UNCHANGED writes
              /\ IF job.received = 0 /\ ~owner.here
                 THEN Kill(k) /\ UNCHANGED owner
                 ELSE /\ job' = k
                      /\ owner' = IF job.received = 0
                                  THEN [owner EXCEPT !.begun = TRUE, !.name = k.filename, !.owed = @ + 1]
                                  ELSE owner
                      /\ UNCHANGED <<filter, tpc>>
    /\ UNCHANGED <<tbuf, jobs>>

\* The write(2) returns: it fails on a closed descriptor or a dead filter,
\* and blocks while the pipe is full.
JobWritten ==
    /\ rpc = "write"
    /\ \/ /\ ~job.infd \/ filter.run = "dead"
          /\ UNCHANGED filter
       \/ /\ job.infd /\ filter.run = "run" /\ Len(filter.in) < PipeCap
          /\ filter' = [filter EXCEPT !.in = Append(@, writes + 1)]
    /\ rpc' = "idle"
    /\ writes' = writes + 1
    /\ UNCHANGED <<job, tpc, tbuf, owner, jobs>>

\* guac_rdpdr_process_print_job_close and guac_rdp_print_job_free up to the
\* join of the output thread
JobClose ==
    /\ rpc = "idle" /\ job.live
    /\ rpc' = "join"
    /\ job' = [job EXCEPT !.infd = FALSE]
    /\ UNCHANGED <<filter, tpc, tbuf, owner, jobs, writes>>

\* The connection ends with the job active: kill, then free.
Disconnect ==
    /\ rpc = "idle" /\ job.live
    /\ rpc' = "leaving"
    /\ Kill(job)
    /\ UNCHANGED <<tbuf, owner, jobs, writes>>

JobJoined ==
    /\ rpc \in {"join", "leaving"} /\ tpc = "done"
    /\ job' = NoJob /\ tpc' = "none" /\ filter' = NoFilter
    /\ rpc' = IF rpc = "join" THEN "idle" ELSE "disconnected"
    /\ UNCHANGED <<tbuf, owner, jobs, writes>>

(* ------------------------ the output thread ---------------------------- *)

\* The filter's output is at its end: it exited, or the descriptor is closed.
OutputEnds == ~job.outfd \/ (filter.out = <<>> /\ filter.run \in {"dead", "exited"})

ThreadRead ==
    /\ tpc = "read"
    /\ \/ /\ OutputEnds
          /\ tpc' = "end"
          /\ UNCHANGED <<filter, tbuf>>
       \/ /\ job.outfd /\ filter.out # <<>>
          /\ tbuf' = Head(filter.out)
          /\ filter' = [filter EXCEPT !.out = Tail(@)]
          /\ tpc' = "wait"
    /\ UNCHANGED <<job, rpc, owner, jobs, writes>>

\* guac_rdp_print_job_wait_for_ack: one wait at most, then the state decides;
\* a thread that wakes without an answer ends the stream.
AfterWait(reset) ==
    LET acked == job.state = "ACK_RECEIVED" IN
    /\ tpc' = IF acked THEN "send" ELSE "end"
    /\ job' = IF acked THEN [job EXCEPT !.state = reset] ELSE [job EXCEPT !.cut = TRUE]
MutWaitForAck ==
    /\ \/ tpc = "wait" /\ job.state = "WAITING_FOR_ACK" /\ tpc' = "blocked" /\ UNCHANGED job
       \/ tpc = "wait" /\ job.state # "WAITING_FOR_ACK" /\ AfterWait("ACK_RECEIVED")
       \/ tpc = "woken" /\ AfterWait("ACK_RECEIVED")
    /\ UNCHANGED <<filter, rpc, tbuf, owner, jobs, writes>>
WaitForAck ==
    /\ \/ tpc = "wait" /\ job.state = "WAITING_FOR_ACK" /\ tpc' = "blocked" /\ UNCHANGED job
       \/ tpc = "wait" /\ job.state # "WAITING_FOR_ACK" /\ AfterWait("WAITING_FOR_ACK")
       \/ tpc = "woken" /\ AfterWait("WAITING_FOR_ACK")
    /\ UNCHANGED <<filter, rpc, tbuf, owner, jobs, writes>>

\* pthread_cond_wait may return though nothing was signalled.
WakeUnasked ==
    /\ tpc = "blocked" /\ tpc' = "woken"
    /\ UNCHANGED <<job, filter, rpc, tbuf, owner, jobs, writes>>

\* guac_rdp_print_job_send_blob
SendBlob ==
    /\ tpc = "send"
    /\ IF owner.here
       THEN /\ owner' = [owner EXCEPT !.recv = Append(@, tbuf), !.owed = @ + 1]
            /\ tpc' = "read"
            /\ UNCHANGED <<job, filter>>
       ELSE KillSelf("read") /\ UNCHANGED owner
    /\ UNCHANGED <<rpc, tbuf, jobs, writes>>

\* guac_rdp_print_job_end_stream and the end of the output thread, which
\* closes both descriptors.
EndStream ==
    /\ tpc = "end"
    /\ IF owner.here
       THEN /\ owner' = [owner EXCEPT !.ended = TRUE]
            /\ job' = [job EXCEPT !.stream = FALSE, !.infd = FALSE, !.outfd = FALSE]
            /\ tpc' = "done"
            /\ UNCHANGED filter
       ELSE KillSelf("done") /\ UNCHANGED owner
    /\ UNCHANGED <<rpc, tbuf, jobs, writes>>

(* --------------------- the owner and the filter ------------------------ *)

\* guac_rdp_print_filter_ack_handler: the owner answers the file and every
\* blob, in order; once the stream is freed the answer reaches nobody, and
\* once its index is used again it reaches the stream that uses it.
Ack(ok) ==
    /\ owner.here /\ owner.owed + owner.late > 0
    /\ owner' = IF owner.late = 0 THEN [owner EXCEPT !.owed = @ - 1]
                ELSE [owner EXCEPT !.late = @ - 1,
                                   !.credited = IF ok /\ job.live /\ job.stream THEN @ + 1 ELSE @]
    /\ IF ~job.live \/ ~job.stream THEN UNCHANGED <<job, tpc, filter>>
       ELSE IF ok THEN SetState(job, "ACK_RECEIVED") /\ UNCHANGED filter
       ELSE Kill(job)
    /\ UNCHANGED <<rpc, tbuf, jobs, writes>>

\* The owner leaves; nobody tells the job.
OwnerLeaves ==
    /\ owner.here
    /\ owner' = [owner EXCEPT !.here = FALSE]
    /\ UNCHANGED <<job, filter, rpc, tpc, tbuf, jobs, writes>>

\* The filter works on while somebody may read what it writes, and dies of
\* writing when nobody does.
FilterWorks ==
    /\ filter.run = "run"
    /\ \/ /\ filter.in # <<>> /\ job.outfd /\ Len(filter.out) < PipeCap
          /\ filter' = [filter EXCEPT !.in = Tail(@), !.out = Append(@, Head(filter.in))]
       \/ /\ filter.in = <<>> /\ ~job.infd
          /\ filter' = [filter EXCEPT !.run = "exited"]
       \/ filter.in # <<>> /\ ~job.outfd /\ KillFilter
    /\ UNCHANGED <<job, rpc, tpc, tbuf, owner, jobs, writes>>

FilterCrashes ==
    /\ filter.run = "run"
    /\ KillFilter
    /\ UNCHANGED <<job, rpc, tpc, tbuf, owner, jobs, writes>>

PrintThreads == ThreadRead \/ WaitForAck \/ SendBlob \/ EndStream
PrintNext ==
    \/ JobCreate \/ JobWrite \/ JobWritten \/ JobClose \/ Disconnect \/ JobJoined
    \/ PrintThreads \/ WakeUnasked \/ Ack(TRUE) \/ Ack(FALSE) \/ OwnerLeaves \/ FilterWorks \/ FilterCrashes

PrintSpec == PrintInit /\ [][PrintNext]_printVars

\* The threads and the filter run on, and a browser that stays answers.
PrintFairness ==
    /\ WF_printVars(PrintThreads) /\ WF_printVars(FilterWorks)
    /\ WF_printVars(JobWritten) /\ WF_printVars(JobJoined)
    /\ WF_printVars(Ack(TRUE))

(* -------------------------- properties --------------------------------- *)

\* The owner's PDF is what the filter made of the document, in order and
\* without a gap; no blob precedes the file it belongs to, or goes out
\* while the one before it is unacknowledged (but for answers to an earlier
\* job that arrive in this one); and one that ends with neither an abort nor
\* a crash is whole, if the output thread never woke without an answer.
PrintExact ==
    /\ owner.recv # <<>> => owner.begun
    /\ \A i \in DOMAIN owner.recv : owner.recv[i] = owner.recv[1] + i - 1
    /\ owner.owed <= 1 + owner.credited
    /\ job.live /\ owner.ended /\ ~job.cut /\ filter.run = "exited" =>
          Len(owner.recv) = job.received

\* Not so: guac_rdp_print_job_wait_for_ack waits until the state is not
\* WAITING_FOR_ACK (print-job.c:78), but with an if around the wait (:98), so
\* that a wakeup nobody asked for ends the document early.
EndsAfterFilter == job.live /\ owner.ended => filter.run # "run"

\* The RDP thread is never held by a job for ever, neither in a write to the
\* filter nor in the join that closes the job, but for an owner who left
\* while the output thread waited for its answer.
JobReturns ==
    rpc \in {"write", "join", "leaving"} ~>
        (rpc \in {"idle", "disconnected"} \/ (~owner.here /\ tpc = "blocked"))
=============================================================================
