----------------------------- MODULE KuberPods -----------------------------
(***************************************************************************)
(* How the controller finds a pod for a user (kuber/pods.go).              *)
(*                                                                         *)
(* Pods run in Kubernetes jobs.  The controller keeps a few placeholder    *)
(* jobs running; to give one to a user it writes the user into the labels  *)
(* of the job and then of the job's pod, each time naming the resource     *)
(* version it read, so that the API server refuses the write when somebody *)
(* else has written in between.  When there is no placeholder a job is     *)
(* created under a name made from the user.                                *)
(*                                                                         *)
(* The API server, the job controller and the kubelet are external and     *)
(* modelled from the way pods.go uses them.  One image version is running; *)
(* the order in which placeholders are tried, oldest first at a resolution *)
(* of one second, is left open.                                            *)
(***************************************************************************)
EXTENDS Naturals, FiniteSets

CONSTANTS
    Slots,      \* names of placeholder jobs: random, never used twice
    Users,      \* users; a user is also the name of the job made for them
    Calls,      \* calls of GetPodByUser
    CallUser,   \* the user a call is for
    MaxFaults,  \* bound: what Kubernetes does on its own, and failing requests
    MaxSpawn,   \* bound: placeholder jobs waiting to be created
    None, Absent, Placeholder

Names == Slots \cup Users

ASSUME NameAssumption ==
    /\ Slots \cap Users = {}
    /\ CallUser \in [Calls -> Users]
    /\ None \notin Names
    /\ Absent # Placeholder
    /\ Absent \notin Users
    /\ Placeholder \notin Users
    /\ Users \cap {"unused", "free", "ended"} = {}
ASSUME BoundAssumption ==
    MaxFaults \in Nat /\ MaxSpawn \in Nat

VARIABLES
    jobOwner,  \* the job's labels: Placeholder or a user; Absent: no such job
    jobRv,     \* the job's resource version; 0 before it is first created
    podOwner,  \* the same for the job's pod
    podRv,
    podReady,  \* the kubelet reports the pod ready
    faults,    \* how many faults there have been
    pc,        \* where a call of GetPodByUser is
    listed,    \* the jobs it has listed and not tried: their versions, or 0
    few,       \* it listed fewer than two
    claimed,   \* the job whose pod it is claiming
    seenRv,    \* the version of that pod when it was listed
    result,    \* the job whose pod the call has returned
    spawn,     \* CreatePlaceholderJob calls that goroutines have yet to make
    boot       \* where the startup goroutine is in createAtLeastOneJob

kubeVars == <<jobOwner, jobRv, podOwner, podRv, podReady>>
jobVars == <<jobOwner, jobRv>>
podVars == <<podOwner, podRv, podReady>>
callVars == <<pc, listed, few, claimed, seenRv, result>>
vars == <<kubeVars, faults, callVars, spawn, boot>>

PC == {"find", "list", "patchJob", "listPods", "patchPod", "create", "watch",
       "done", "failed"}

\* No job is listed.
NoJobs == [n \in Names |-> 0]

Init ==
    /\ jobOwner = [n \in Names |-> Absent]
    /\ jobRv = [n \in Names |-> 0]
    /\ podOwner = [n \in Names |-> Absent]
    /\ podRv = [n \in Names |-> 0]
    /\ podReady = [n \in Names |-> FALSE]
    /\ faults = 0
    /\ pc = [c \in Calls |-> "find"]
    /\ listed = [c \in Calls |-> NoJobs]
    /\ few = [c \in Calls |-> FALSE]
    /\ claimed = [c \in Calls |-> None]
    /\ seenRv = [c \in Calls |-> 0]
    /\ result = [c \in Calls |-> None]
    /\ spawn = 0
    /\ boot = "list"

Goto(c, from, to) == pc[c] = from /\ pc' = [pc EXCEPT ![c] = to]

\* Something happens that the call does not control: Kubernetes writes to its
\* objects, or a request to the API server fails.
Fault == faults < MaxFaults /\ faults' = faults + 1

\* A goroutine is started that creates k placeholders.  Beyond the bound their
\* creation fails.
Spawn(k) == IF spawn + k <= MaxSpawn THEN spawn + k ELSE MaxSpawn

PlaceholderJobs == {n \in Names : jobOwner[n] = Placeholder}

-----------------------------------------------------------------------------
(* GetPodByUser                                                            *)

\* findPodForUser: any pod that carries the labels of the user.
FindPod(c) ==
    /\ \/ \E n \in Names :
             /\ podOwner[n] = CallUser[c]
             /\ Goto(c, "find", "done")
             /\ result' = [result EXCEPT ![c] = n]
       \/ /\ \A n \in Names : podOwner[n] # CallUser[c]
          /\ Goto(c, "find", "list")
          /\ UNCHANGED result
    /\ UNCHANGED <<kubeVars, faults, listed, few, claimed, seenRv, spawn, boot>>

\* createJobForUserAbstract lists the placeholder jobs.  When there is none it
\* starts a goroutine that creates two, and creates a job for the user.
ListPlaceholders(c) ==
    /\ Goto(c, "list", IF PlaceholderJobs = {} THEN "create" ELSE "patchJob")
    /\ listed' = [listed EXCEPT ![c] =
                     [n \in Names |-> IF n \in PlaceholderJobs THEN jobRv[n] ELSE 0]]
    /\ few' = [few EXCEPT ![c] = Cardinality(PlaceholderJobs) < 2]
    /\ spawn' = IF PlaceholderJobs = {} THEN Spawn(2) ELSE spawn
    /\ UNCHANGED <<kubeVars, faults, claimed, seenRv, result, boot>>

\* The patch of a listed job goes through: nobody has written to it since.
PatchJob(c, n) ==
    /\ listed[c][n] # 0
    /\ jobOwner[n] # Absent /\ jobRv[n] = listed[c][n]
    /\ Goto(c, "patchJob", "listPods")
    /\ jobOwner' = [jobOwner EXCEPT ![n] = CallUser[c]]
    /\ jobRv' = [jobRv EXCEPT ![n] = @ + 1]
    /\ claimed' = [claimed EXCEPT ![c] = n]
    /\ listed' = [listed EXCEPT ![c] = NoJobs]
    /\ UNCHANGED <<podVars, faults, few, seenRv, result, spawn, boot>>

\* The patch is refused, or fails: try the next job of the list.
PatchJobFails(c, n) ==
    /\ pc[c] = "patchJob"
    /\ listed[c][n] # 0
    /\ \/ /\ jobOwner[n] = Absent \/ jobRv[n] # listed[c][n]
          /\ UNCHANGED faults
       \/ Fault
    /\ listed' = [listed EXCEPT ![c][n] = 0]
    /\ UNCHANGED <<kubeVars, pc, few, claimed, seenRv, result, spawn, boot>>

\* The patch goes through and its answer is lost: the next job is tried.
PatchJobLost(c, n) ==
    /\ pc[c] = "patchJob"
    /\ listed[c][n] # 0
    /\ jobOwner[n] # Absent /\ jobRv[n] = listed[c][n]
    /\ Fault
    /\ jobOwner' = [jobOwner EXCEPT ![n] = CallUser[c]]
    /\ jobRv' = [jobRv EXCEPT ![n] = @ + 1]
    /\ listed' = [listed EXCEPT ![c][n] = 0]
    /\ UNCHANGED <<podVars, pc, few, claimed, seenRv, result, spawn, boot>>

\* No job of the list was free any more: list again.
ListAgain(c) ==
    /\ \A n \in Names : listed[c][n] = 0
    /\ Goto(c, "patchJob", "list")
    /\ UNCHANGED <<kubeVars, faults, listed, few, claimed, seenRv, result, spawn,
                   boot>>

\* List the pods that carry the identifier of the job and are placeholders.
ListPods(c) ==
    LET n == claimed[c]
    IN  /\ pc[c] = "listPods"
        /\ pc' = [pc EXCEPT ![c] =
                     IF podOwner[n] = Placeholder THEN "patchPod" ELSE "failed"]
        /\ seenRv' = [seenRv EXCEPT ![c] =
                         IF podOwner[n] = Placeholder THEN podRv[n] ELSE @]
        /\ UNCHANGED <<kubeVars, faults, listed, few, claimed, result, spawn, boot>>

\* The patch of the pod goes through; a goroutine creates new placeholders.
PatchPod(c) ==
    LET n == claimed[c]
    IN  /\ Goto(c, "patchPod", "done")
        /\ podOwner[n] # Absent /\ podRv[n] = seenRv[c]
        /\ podOwner' = [podOwner EXCEPT ![n] = CallUser[c]]
        /\ podRv' = [podRv EXCEPT ![n] = @ + 1]
        /\ result' = [result EXCEPT ![c] = n]
        /\ spawn' = Spawn(IF few[c] THEN 2 ELSE 1)
        /\ UNCHANGED <<jobVars, podReady, faults, listed, few, claimed,
                       seenRv, boot>>

\* The patch of the pod is refused.  The job keeps the labels it was given.
PatchPodFails(c) ==
    /\ Goto(c, "patchPod", "failed")
    /\ podOwner[claimed[c]] = Absent \/ podRv[claimed[c]] # seenRv[c]
    /\ UNCHANGED <<kubeVars, faults, listed, few, claimed, seenRv, result, spawn,
                   boot>>

\* The patch of the pod goes through and its answer is lost.
PatchPodLost(c) ==
    LET n == claimed[c]
    IN  /\ Goto(c, "patchPod", "failed")
        /\ podOwner[n] # Absent /\ podRv[n] = seenRv[c]
        /\ Fault
        /\ podOwner' = [podOwner EXCEPT ![n] = CallUser[c]]
        /\ podRv' = [podRv EXCEPT ![n] = @ + 1]
        /\ UNCHANGED <<jobVars, podReady, listed, few, claimed, seenRv,
                       result, spawn, boot>>

\* createJodForUser: the API server refuses a second job of the same name.
CreateJob(c) ==
    LET u == CallUser[c]
    IN  /\ \/ /\ jobOwner[u] = Absent
              /\ Goto(c, "create", "watch")
              /\ jobOwner' = [jobOwner EXCEPT ![u] = u]
              /\ jobRv' = [jobRv EXCEPT ![u] = @ + 1]
           \/ /\ jobOwner[u] # Absent
              /\ Goto(c, "create", "failed")
              /\ UNCHANGED jobVars
        /\ UNCHANGED <<podVars, faults, listed, few, claimed, seenRv,
                       result, spawn, boot>>

\* The job is created and the answer is lost.
CreateJobLost(c) ==
    LET u == CallUser[c]
    IN  /\ Goto(c, "create", "failed")
        /\ jobOwner[u] = Absent
        /\ Fault
        /\ jobOwner' = [jobOwner EXCEPT ![u] = u]
        /\ jobRv' = [jobRv EXCEPT ![u] = @ + 1]
        /\ UNCHANGED <<podVars, listed, few, claimed, seenRv, result,
                       spawn, boot>>

\* The watch reports a ready pod with the labels of the user ...
WatchReady(c) ==
    /\ Goto(c, "watch", "done")
    /\ \E n \in Names :
           /\ podOwner[n] = CallUser[c]
           /\ podReady[n]
           /\ result' = [result EXCEPT ![c] = n]
    /\ UNCHANGED <<kubeVars, faults, listed, few, claimed, seenRv, spawn, boot>>

\* ... or ten seconds go by first.
WatchTimeout(c) ==
    /\ Goto(c, "watch", "failed")
    /\ UNCHANGED <<kubeVars, faults, listed, few, claimed, seenRv, result, spawn,
                   boot>>

\* The watch is refused, or the API server closes it.  Then the channel yields
\* an event without an object, whose type assertion panics, and the router's
\* RecoverPanic ends the request.
WatchCloses(c) ==
    /\ Goto(c, "watch", "failed")
    /\ Fault
    /\ UNCHANGED <<kubeVars, listed, few, claimed, seenRv, result, spawn, boot>>

\* Any other API request of the call fails, and with it the call.
CallFails(c) ==
    /\ pc[c] \in {"find", "list", "listPods", "patchPod", "create"}
    /\ Fault
    /\ pc' = [pc EXCEPT ![c] = "failed"]
    /\ UNCHANGED <<kubeVars, listed, few, claimed, seenRv, result, spawn, boot>>

\* The caller has its answer; a later request makes the call anew.
CallAgain(c) ==
    /\ pc[c] \in {"done", "failed"}
    /\ pc' = [pc EXCEPT ![c] = "find"]
    /\ listed' = [listed EXCEPT ![c] = NoJobs]
    /\ few' = [few EXCEPT ![c] = FALSE]
    /\ claimed' = [claimed EXCEPT ![c] = None]
    /\ seenRv' = [seenRv EXCEPT ![c] = 0]
    /\ result' = [result EXCEPT ![c] = None]
    /\ UNCHANGED <<kubeVars, faults, spawn, boot>>

-----------------------------------------------------------------------------
(* Placeholders                                                            *)

\* Mutant: the name of a job that is gone is used again.
MutNewPlaceholder(n) ==
    /\ n \in Slots
    /\ jobOwner[n] = Absent
    /\ jobOwner' = [jobOwner EXCEPT ![n] = Placeholder]
    /\ jobRv' = [jobRv EXCEPT ![n] = @ + 1]

\* A placeholder job is created under a new random name.
NewPlaceholder(n) ==
    /\ n \in Slots
    /\ jobRv[n] = 0
    /\ jobOwner' = [jobOwner EXCEPT ![n] = Placeholder]
    /\ jobRv' = [jobRv EXCEPT ![n] = 1]

\* CreatePlaceholderJob, called from a goroutine.
CreatePlaceholderJob ==
    /\ spawn > 0
    /\ spawn' = spawn - 1
    /\ \/ /\ \E n \in Slots : NewPlaceholder(n)
          /\ UNCHANGED faults
       \/ /\ Fault
          /\ UNCHANGED jobVars
    /\ UNCHANGED <<podVars, callVars, boot>>

\* createAtLeastOneJob at startup: list the placeholders, create one if there
\* is none.
BootList ==
    /\ boot = "list"
    /\ \/ /\ boot' = IF PlaceholderJobs = {} THEN "create" ELSE "done"
          /\ UNCHANGED faults
       \/ /\ boot' = "done"
          /\ Fault
    /\ UNCHANGED <<kubeVars, callVars, spawn>>

BootCreate ==
    /\ boot = "create"
    /\ boot' = "done"
    /\ \/ /\ \E n \in Slots : NewPlaceholder(n)
          /\ UNCHANGED faults
       \/ /\ Fault
          /\ UNCHANGED jobVars
    /\ UNCHANGED <<podVars, callVars, spawn>>

-----------------------------------------------------------------------------
(* Kubernetes                                                              *)

\* The job controller starts the pod of a job from the job's template, which
\* a patch of the job's labels does not change.
StartPod(n) ==
    /\ jobOwner[n] # Absent
    /\ podOwner[n] = Absent
    /\ podOwner' = [podOwner EXCEPT ![n] = IF n \in Slots THEN Placeholder ELSE n]
    /\ podRv' = [podRv EXCEPT ![n] = @ + 1]
    /\ podReady' = [podReady EXCEPT ![n] = FALSE]
    /\ UNCHANGED <<jobVars, faults, callVars, spawn, boot>>

\* The kubelet reports the pod ready: a new version of the pod.
PodBecomesReady(n) ==
    /\ podOwner[n] # Absent
    /\ ~podReady[n]
    /\ podReady' = [podReady EXCEPT ![n] = TRUE]
    /\ podRv' = [podRv EXCEPT ![n] = @ + 1]
    /\ UNCHANGED <<jobVars, podOwner, faults, callVars, spawn, boot>>

\* The job controller writes the job's status: a new version of the job.
TouchJob(n) ==
    /\ jobOwner[n] # Absent
    /\ Fault
    /\ jobRv' = [jobRv EXCEPT ![n] = @ + 1]
    /\ UNCHANGED <<jobOwner, podVars, callVars, spawn, boot>>

\* A pod is evicted, or its agent exits.  While its job is there, the job
\* controller may start another one.
LosePod(n) ==
    /\ podOwner[n] # Absent
    /\ Fault
    /\ podOwner' = [podOwner EXCEPT ![n] = Absent]
    /\ podReady' = [podReady EXCEPT ![n] = FALSE]
    /\ UNCHANGED <<jobVars, podRv, callVars, spawn, boot>>

\* A job that is complete is removed, with a time to live of zero; its pod has
\* gone before it.
RemoveJob(n) ==
    /\ jobOwner[n] # Absent
    /\ podOwner[n] = Absent
    /\ Fault
    /\ jobOwner' = [jobOwner EXCEPT ![n] = Absent]
    /\ UNCHANGED <<jobRv, podVars, callVars, spawn, boot>>

-----------------------------------------------------------------------------
CallStep(c) ==
    \/ FindPod(c) \/ ListPlaceholders(c) \/ ListAgain(c) \/ ListPods(c)
    \/ PatchPod(c) \/ PatchPodFails(c) \/ PatchPodLost(c)
    \/ CreateJob(c) \/ CreateJobLost(c)
    \/ WatchReady(c) \/ WatchTimeout(c) \/ WatchCloses(c) \/ CallFails(c)
    \/ \E n \in Names :
           PatchJob(c, n) \/ PatchJobFails(c, n) \/ PatchJobLost(c, n)

Kubernetes(n) ==
    \/ StartPod(n) \/ PodBecomesReady(n) \/ TouchJob(n) \/ LosePod(n)
    \/ RemoveJob(n)

Next ==
    \/ \E c \in Calls : CallStep(c) \/ CallAgain(c)
    \/ CreatePlaceholderJob \/ BootList \/ BootCreate
    \/ \E n \in Names : Kubernetes(n)

Spec == Init /\ [][Next]_vars

\* A call that can go on does.
FairSpec == Spec /\ \A c \in Calls : WF_vars(CallStep(c))

-----------------------------------------------------------------------------
(* Properties                                                              *)

\* Every variable has its type.
TypeOK ==
    /\ jobOwner \in [Names -> Users \cup {Absent, Placeholder}]
    /\ jobRv \in [Names -> Nat]
    /\ podOwner \in [Names -> Users \cup {Absent, Placeholder}]
    /\ podRv \in [Names -> Nat]
    /\ podReady \in [Names -> BOOLEAN]
    /\ faults \in 0 .. MaxFaults
    /\ pc \in [Calls -> PC]
    /\ listed \in [Calls -> [Names -> Nat]]
    /\ few \in [Calls -> BOOLEAN]
    /\ claimed \in [Calls -> Names \cup {None}]
    /\ seenRv \in [Calls -> Nat]
    /\ result \in [Calls -> Names \cup {None}]
    /\ spawn \in 0 .. MaxSpawn
    /\ boot \in {"list", "create", "done"}

\* No two users are ever given the same pod, however their calls, the
\* placeholder goroutines and the writes of Kubernetes interleave.
NoSharedPod ==
    \A c, d \in Calls :
        result[c] # None /\ result[c] = result[d] => CallUser[c] = CallUser[d]

\* A pod that carries a user's labels runs in a job that carries them too, so
\* that the two patches never disagree about whose pod it is.
LabelsAgree ==
    \A n \in Names : podOwner[n] \in Users => jobOwner[n] = podOwner[n]

Owner(n) ==
    IF jobOwner[n] = Absent THEN IF jobRv[n] = 0 THEN "unused" ELSE "ended"
    ELSE IF jobOwner[n] = Placeholder THEN "free"
    ELSE jobOwner[n]

Assignment ==
    INSTANCE PodAssignment
    WITH owner <- [n \in Names |-> Owner(n)], given <- result

\* The protocol of labels and resource versions implements PodAssignment: a job
\* belongs to one user for as long as it runs and only that user's calls get it.
AssignmentSpec == Assignment!Spec

\* Every call of GetPodByUser returns: the loop over stale lists ends.
CallReturns ==
    \A c \in Calls : []<>(pc[c] \in {"done", "failed"})

\* What is said of createJobForUserAbstract: it "changes an existing placeholder
\* job so that it can be used for this user".  A job that was changed, and that
\* no call is working on, has a pod the user will be given.
ChangedJobUsable ==
    \A n \in Slots :
        jobOwner[n] \in Users =>
            \/ podOwner[n] = jobOwner[n]
            \/ \E c \in Calls :
                   claimed[c] = n /\ pc[c] \in {"listPods", "patchPod"}
=============================================================================
