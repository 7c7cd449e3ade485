---------------------------- MODULE PodAssignment ----------------------------
(***************************************************************************)
(* What GetPodByUser (kuber/pods.go) promises: a job, with the pod it runs, *)
(* is kept for anyone or belongs to one user, belongs to that user until   *)
(* it ends, and is only given to callers who act for that user.  A job     *)
(* name made from a random identifier is never used a second time.         *)
(***************************************************************************)
CONSTANTS
    Slots,     \* names of placeholder jobs
    Users,     \* users; a user is also the name of the job made for them
    Calls,     \* calls of GetPodByUser
    CallUser,  \* the user a call is for
    None

Names == Slots \cup Users

VARIABLES
    owner,     \* "unused", "free", "ended" or the user the job belongs to
    given      \* the job whose pod a call has returned

Init ==
    /\ owner = [n \in Names |-> "unused"]
    /\ given = [c \in Calls |-> None]

\* A placeholder job is created.
Keep(n) ==
    /\ n \in Slots
    /\ owner[n] = "unused"
    /\ owner' = [owner EXCEPT ![n] = "free"]
    /\ UNCHANGED given

\* A placeholder job goes to a user, or a job is created for the user.
Assign(n, u) ==
    /\ IF n \in Slots THEN owner[n] = "free"
                      ELSE n = u /\ owner[n] \in {"unused", "ended"}
    /\ owner' = [owner EXCEPT ![n] = u]
    /\ UNCHANGED given

\* The job ends and is removed.
End(n) ==
    /\ owner[n] \notin {"unused", "ended"}
    /\ owner' = [owner EXCEPT ![n] = "ended"]
    /\ UNCHANGED given

Give(c, n) ==
    /\ owner[n] = CallUser[c]
    /\ given' = [given EXCEPT ![c] = n]
    /\ UNCHANGED owner

\* Give, in the step that also assigns nothing: a call is made anew.
Forget(c) ==
    /\ given' = [given EXCEPT ![c] = None]
    /\ UNCHANGED owner

Next ==
    \/ \E n \in Names : Keep(n) \/ End(n)
    \/ \E n \in Names, u \in Users : Assign(n, u)
    \/ \E c \in Calls, n \in Names : Give(c, n)
    \/ \E c \in Calls : Forget(c)

Spec == Init /\ [][Next]_<<owner, given>>
=============================================================================
