-------------------------- MODULE ControllerProofs --------------------------
(***************************************************************************)
(* Proofs about two parts of the controller, which share no state: the     *)
(* assignment of pods (KuberPods), for every set of placeholder names,     *)
(* users and calls and every bound on what Kubernetes does by itself; and  *)
(* the bridge to the application in a pod (LfsxPeer): its types, that a    *)
(* peer never stops working on its connection before Close and never makes *)
(* one after it, and that open connections are kept alive.                 *)
(***************************************************************************)
EXTENDS KuberPods, LfsxPeer, TLAPS

-----------------------------------------------------------------------------
(* KuberPods                                                               *)

\* What a bounded addition of placeholders leaves is within the bound.
LEMMA SpawnType ==
    ASSUME spawn \in 0 .. MaxSpawn, NEW k \in Nat
    PROVE  Spawn(k) \in 0 .. MaxSpawn
  BY BoundAssumption DEF Spawn

\* A call that works on a pod knows the name of its job.
TargetNamed == \A c \in Calls : pc[c] \in {"listPods", "patchPod"} => claimed[c] \in Names

\* The types alone are not inductive: a call reads the pod of the job it is claiming.
TypeInv == TypeOK /\ TargetNamed

\* The initial state has the right types.
LEMMA TypeInit == Init => TypeInv
  BY NameAssumption, BoundAssumption
     DEF Init, TypeInv, TypeOK, TargetNamed, PC, NoJobs

\* A step of GetPodByUser keeps the types.
LEMMA TypeCallStep ==
    ASSUME TypeInv, NEW c \in Calls, CallStep(c) \/ CallAgain(c)
    PROVE  TypeInv'
<1> USE NameAssumption, BoundAssumption
        DEF TypeInv, TypeOK, TargetNamed, kubeVars, jobVars, podVars, Goto, Fault, PC, NoJobs
<1>0. CallUser[c] \in Users /\ CallUser[c] \in Names
  BY DEF Names
<1>1. CASE FindPod(c)
  <2>1. PICK to \in {"done", "list"} : pc' = [pc EXCEPT ![c] = to]
    BY <1>1 DEF FindPod
  <2>2. result' = result \/ \E n \in Names : result' = [result EXCEPT ![c] = n]
    BY <1>1 DEF FindPod
  <2>3. result' \in [Calls -> Names \cup {None}]
    BY <2>2
  <2>4. QED
    BY <1>1, <2>1, <2>3 DEF FindPod
<1>2. CASE ListPlaceholders(c)
  <2>1. pc' \in [Calls -> PC]
    BY <1>2 DEF ListPlaceholders
  <2>2. listed' \in [Calls -> [Names -> Nat]]
    <3>1. [n \in Names |-> IF n \in PlaceholderJobs THEN jobRv[n] ELSE 0]
              \in [Names -> Nat]
      OBVIOUS
    <3>2. QED
      BY <1>2, <3>1 DEF ListPlaceholders
  <2>3. few' \in [Calls -> BOOLEAN]
    BY <1>2 DEF ListPlaceholders
  <2>4. spawn' \in 0 .. MaxSpawn
    BY <1>2, SpawnType DEF ListPlaceholders
  <2>5. QED
    BY <1>2, <2>1, <2>2, <2>3, <2>4 DEF ListPlaceholders
<1>3. CASE ListAgain(c)
  BY <1>3 DEF ListAgain
<1>4. CASE ListPods(c)
  <2>1. pc' \in [Calls -> PC]
    BY <1>4 DEF ListPods
  <2>2. seenRv' \in [Calls -> Nat]
    <3>1. podRv[claimed[c]] \in Nat
      BY <1>4 DEF ListPods
    <3>2. QED
      BY <1>4, <3>1 DEF ListPods
  <2>3. QED
    BY <1>4, <2>1, <2>2 DEF ListPods
<1>5. CASE PatchPod(c)
  <2>1. Spawn(IF few[c] THEN 2 ELSE 1) \in 0 .. MaxSpawn
    BY SpawnType
  <2>2. QED
    BY <1>5, <2>1 DEF PatchPod
<1>6. CASE PatchPodFails(c)
  BY <1>6 DEF PatchPodFails
<1>7. CASE CreateJob(c)
  <2>1. PICK to \in {"watch", "failed"} : pc' = [pc EXCEPT ![c] = to]
    BY <1>7 DEF CreateJob
  <2>2. \/ UNCHANGED jobVars
        \/ /\ jobOwner' = [jobOwner EXCEPT ![CallUser[c]] = CallUser[c]]
           /\ jobRv' = [jobRv EXCEPT ![CallUser[c]] = @ + 1]
    BY <1>7 DEF CreateJob
  <2>3. /\ jobOwner' \in [Names -> Users \cup {Absent, Placeholder}]
        /\ jobRv' \in [Names -> Nat]
    <3>1. CASE UNCHANGED jobVars
      BY <3>1
    <3>2. CASE /\ jobOwner' = [jobOwner EXCEPT ![CallUser[c]] = CallUser[c]]
               /\ jobRv' = [jobRv EXCEPT ![CallUser[c]] = @ + 1]
      BY <1>0, <3>2
    <3>3. QED
      BY <2>2, <3>1, <3>2
  <2>4. QED
    BY <1>7, <2>1, <2>3 DEF CreateJob
<1>8. CASE WatchReady(c)
  BY <1>8 DEF WatchReady
<1>9. CASE WatchTimeout(c) \/ WatchCloses(c)
  BY <1>9 DEF WatchTimeout, WatchCloses
<1>10. CASE CallFails(c)
  BY <1>10 DEF CallFails
<1>11. ASSUME NEW n \in Names, PatchJob(c, n) PROVE TypeInv'
  BY <1>0, <1>11 DEF PatchJob
<1>12. ASSUME NEW n \in Names, PatchJobFails(c, n) PROVE TypeInv'
  BY <1>12 DEF PatchJobFails
<1>13. CASE CallAgain(c)
  BY <1>13 DEF CallAgain
<1>14. ASSUME NEW n \in Names, PatchJobLost(c, n) PROVE TypeInv'
  BY <1>0, <1>14 DEF PatchJobLost
<1>15. CASE PatchPodLost(c)
  BY <1>0, <1>15 DEF PatchPodLost
<1>16. CASE CreateJobLost(c)
  BY <1>0, <1>16 DEF CreateJobLost
<1> QED
  BY <1>1, <1>2, <1>3, <1>4, <1>5, <1>6, <1>7, <1>8, <1>9, <1>10, <1>11,
     <1>12, <1>13, <1>14, <1>15, <1>16 DEF CallStep

\* So does a step of the placeholder goroutines or of Kubernetes.
LEMMA TypeOtherStep ==
    ASSUME TypeInv,
           \/ CreatePlaceholderJob \/ BootList \/ BootCreate
           \/ \E n \in Names : Kubernetes(n)
    PROVE  TypeInv'
<1> USE NameAssumption, BoundAssumption
        DEF TypeInv, TypeOK, TargetNamed, kubeVars, jobVars, podVars, callVars, Fault
<1>0. ASSUME (\E n \in Slots : NewPlaceholder(n)) \/ UNCHANGED jobVars
      PROVE  /\ jobOwner' \in [Names -> Users \cup {Absent, Placeholder}]
             /\ jobRv' \in [Names -> Nat]
  <2>1. CASE UNCHANGED jobVars
    BY <2>1
  <2>2. ASSUME NEW n \in Slots, NewPlaceholder(n)
        PROVE  /\ jobOwner' \in [Names -> Users \cup {Absent, Placeholder}]
               /\ jobRv' \in [Names -> Nat]
    BY <2>2 DEF NewPlaceholder
  <2>3. QED
    BY <1>0, <2>1, <2>2
<1>1. CASE CreatePlaceholderJob
  <2>1. faults' \in 0 .. MaxFaults /\ spawn' \in 0 .. MaxSpawn
    BY <1>1 DEF CreatePlaceholderJob
  <2>2. (\E n \in Slots : NewPlaceholder(n)) \/ UNCHANGED jobVars
    BY <1>1 DEF CreatePlaceholderJob
  <2>3. QED
    BY <1>0, <1>1, <2>1, <2>2 DEF CreatePlaceholderJob
<1>2. CASE BootList
  BY <1>2 DEF BootList
<1>3. CASE BootCreate
  <2>1. faults' \in 0 .. MaxFaults
    BY <1>3 DEF BootCreate
  <2>2. (\E n \in Slots : NewPlaceholder(n)) \/ UNCHANGED jobVars
    BY <1>3 DEF BootCreate
  <2>3. QED
    BY <1>0, <1>3, <2>1, <2>2 DEF BootCreate
<1>4. ASSUME NEW n \in Names, StartPod(n) PROVE TypeInv'
  BY <1>4 DEF StartPod, Names
<1>5. ASSUME NEW n \in Names, PodBecomesReady(n) PROVE TypeInv'
  BY <1>5 DEF PodBecomesReady
<1>6. ASSUME NEW n \in Names, TouchJob(n) PROVE TypeInv'
  BY <1>6 DEF TouchJob
<1>7. ASSUME NEW n \in Names, LosePod(n) PROVE TypeInv'
  BY <1>7 DEF LosePod
<1>8. ASSUME NEW n \in Names, RemoveJob(n) PROVE TypeInv'
  BY <1>8 DEF RemoveJob
<1> QED
  BY <1>1, <1>2, <1>3, <1>4, <1>5, <1>6, <1>7, <1>8 DEF Kubernetes

\* Every variable has its type in every reachable state.
THEOREM TypeCorrect == Spec => []TypeOK
<1>1. TypeInv /\ [Next]_vars => TypeInv'
  <2>1. ASSUME TypeInv, UNCHANGED vars PROVE TypeInv'
    BY <2>1 DEF TypeInv, TypeOK, TargetNamed, vars, kubeVars, callVars
  <2>2. QED
    BY <2>1, TypeCallStep, TypeOtherStep DEF Next
<1>2. TypeInv => TypeOK
  BY DEF TypeInv
<1>3. QED
  BY <1>1, <1>2, TypeInit, PTL DEF Spec

-----------------------------------------------------------------------------
(* Whose pod it is                                                         *)

\* A job's labels and its pod's: a pod has a job, a placeholder has a random
\* name, a job made for a user is that user's, and a labelled pod agrees with
\* its job.
JobInv(n) ==
    /\ jobOwner[n] = Absent => podOwner[n] = Absent
    /\ jobOwner[n] # Absent => jobRv[n] > 0
    /\ jobOwner[n] = Placeholder => n \in Slots
    /\ n \in Users => jobOwner[n] \in {Absent, n}
    /\ podOwner[n] \in Users => jobOwner[n] = podOwner[n]

\* A listed version that is still the job's version is a placeholder's.
ListInv(c, n) ==
    /\ listed[c][n] <= jobRv[n]
    /\ listed[c][n] # 0 => n \in Slots
    /\ listed[c][n] # 0 /\ listed[c][n] = jobRv[n] /\ jobOwner[n] # Absent
           => jobOwner[n] = Placeholder

\* The job was given to user u and, while it lasts, stays u's.
Held(u, n) == jobRv[n] > 0 /\ jobOwner[n] \in {u, Absent}

\* A call that works on a pod has been given the pod's job.
ClaimInv(c) ==
    pc[c] \in {"listPods", "patchPod"} =>
        claimed[c] \in Slots /\ Held(CallUser[c], claimed[c])

\* A call returned the pod of a job its user was given.
ResultInv(c) ==
    /\ result[c] \in Slots => Held(CallUser[c], result[c])
    /\ result[c] \in Users => result[c] = CallUser[c]

PodInv ==
    /\ \A n \in Names : JobInv(n)
    /\ \A c \in Calls : \A n \in Names : ListInv(c, n)
    /\ \A c \in Calls : ClaimInv(c)
    /\ \A c \in Calls : ResultInv(c)
    /\ NoSharedPod

\* The invariant holds initially.
LEMMA PodInit == Init => PodInv
  BY NameAssumption
     DEF Init, PodInv, JobInv, ListInv, ClaimInv, ResultInv, NoSharedPod, NoJobs,
         Names

\* A call that finds the user's pod may return it: its job is the user's, and
\* whoever was given it before was the same user.
LEMMA GiveKeeps ==
    ASSUME TypeInv, PodInv, NEW c \in Calls, NEW n \in Names,
           jobOwner[n] = CallUser[c],
           result' = [result EXCEPT ![c] = n],
           UNCHANGED jobVars
    PROVE  /\ \A d \in Calls : ResultInv(d)'
           /\ NoSharedPod'
<1> USE NameAssumption
        DEF TypeInv, TypeOK, PodInv, JobInv, Held, ResultInv, jobVars, Names
<1>1. CallUser[c] \in Users
  BY NameAssumption
<1>2. jobOwner[n] # Absent
  BY <1>1, NameAssumption
<1>3. ASSUME NEW d \in Calls PROVE ResultInv(d)'
  BY <1>1, <1>2, <1>3
<1>4. ASSUME NEW d \in Calls, result[d] = n PROVE CallUser[d] = CallUser[c]
  BY <1>1, <1>2, <1>4
<1>5. NoSharedPod'
  BY <1>4 DEF NoSharedPod
<1> QED
  BY <1>3, <1>5

\* A step of GetPodByUser keeps the invariant.
LEMMA PodCallStep ==
    ASSUME TypeInv, PodInv, NEW c \in Calls, CallStep(c) \/ CallAgain(c)
    PROVE  PodInv'
<1> USE NameAssumption
        DEF TypeInv, TypeOK, PodInv, JobInv, ListInv, ClaimInv, ResultInv, Held,
            kubeVars, jobVars, podVars, Goto, NoJobs
<1>0. CallUser[c] \in Users /\ CallUser[c] \in Names /\ CallUser[c] \notin Slots
  BY DEF Names
<1>14. ASSUME jobOwner[CallUser[c]] = Absent,
              jobOwner' = [jobOwner EXCEPT ![CallUser[c]] = CallUser[c]],
              jobRv' = [jobRv EXCEPT ![CallUser[c]] = @ + 1],
              pc' = [pc EXCEPT ![c] = "watch"] \/ pc' = [pc EXCEPT ![c] = "failed"],
              UNCHANGED <<podVars, listed, claimed, result>>
       PROVE  PodInv'
  <2>1. \A n \in Slots : UNCHANGED <<jobOwner[n], jobRv[n]>>
    BY <1>0, <1>14 DEF Names
  <2>2. \A n \in Names : JobInv(n)'
    BY <1>0, <1>14
  <2>3. \A d \in Calls : \A n \in Names : ListInv(d, n)'
    BY <1>0, <1>14
  <2>4. (\A d \in Calls : ClaimInv(d)') /\ (\A d \in Calls : ResultInv(d)')
    BY <1>14, <2>1
  <2>5. QED
    BY <1>14, <2>2, <2>3, <2>4 DEF NoSharedPod
<1>1. CASE FindPod(c)
  <2>1. CASE result' = result
    BY <1>1, <2>1 DEF FindPod, NoSharedPod
  <2>2. ASSUME NEW n \in Names, podOwner[n] = CallUser[c],
               result' = [result EXCEPT ![c] = n]
        PROVE  PodInv'
    <3>1. jobOwner[n] = CallUser[c] /\ UNCHANGED jobVars
      BY <1>0, <1>1, <2>2 DEF FindPod
    <3>2. (\A d \in Calls : ResultInv(d)') /\ NoSharedPod'
      BY <2>2, <3>1, GiveKeeps
    <3>3. QED
      BY <1>1, <3>2 DEF FindPod
  <2>3. QED
    BY <1>1, <2>1, <2>2 DEF FindPod
<1>2. CASE ListPlaceholders(c)
  BY <1>2 DEF ListPlaceholders, PlaceholderJobs, NoSharedPod
<1>3. CASE ListAgain(c)
  BY <1>3 DEF ListAgain, NoSharedPod
<1>4. CASE ListPods(c)
  BY <1>4 DEF ListPods, NoSharedPod
<1>5. CASE PatchPod(c)
  <2>1. claimed[c] \in Names /\ jobOwner[claimed[c]] = CallUser[c]
    BY <1>5 DEF PatchPod, Names
  <2>2. (\A d \in Calls : ResultInv(d)') /\ NoSharedPod'
    BY <1>5, <2>1, GiveKeeps DEF PatchPod
  <2>3. QED
    BY <1>5, <2>1, <2>2 DEF PatchPod
<1>6. CASE PatchPodFails(c)
  BY <1>6 DEF PatchPodFails, NoSharedPod
<1>7. CASE CreateJob(c)
  <2>1. CASE UNCHANGED jobVars
    BY <1>7, <2>1 DEF CreateJob, NoSharedPod
  <2>2. QED
    BY <1>7, <1>14, <2>1 DEF CreateJob
<1>8. CASE WatchReady(c)
  <2>1. PICK n \in Names : podOwner[n] = CallUser[c]
                           /\ result' = [result EXCEPT ![c] = n]
    BY <1>8 DEF WatchReady
  <2>2. jobOwner[n] = CallUser[c] /\ UNCHANGED jobVars
    BY <1>0, <1>8, <2>1 DEF WatchReady
  <2>3. (\A d \in Calls : ResultInv(d)') /\ NoSharedPod'
    BY <2>1, <2>2, GiveKeeps
  <2>4. QED
    BY <1>8, <2>3 DEF WatchReady
<1>9. CASE WatchTimeout(c) \/ WatchCloses(c)
  BY <1>9 DEF WatchTimeout, WatchCloses, NoSharedPod
<1>10. CASE CallFails(c)
  BY <1>10 DEF CallFails, NoSharedPod
<1>11. ASSUME NEW n \in Names, PatchJob(c, n) PROVE PodInv'
  <2>1. jobOwner[n] = Placeholder /\ n \in Slots
    BY <1>11 DEF PatchJob
  <2>2. QED
    BY <1>0, <1>11, <2>1 DEF PatchJob, NoSharedPod
<1>12. ASSUME NEW n \in Names, PatchJobFails(c, n) PROVE PodInv'
  BY <1>12 DEF PatchJobFails, NoSharedPod
<1>13. CASE CallAgain(c)
  BY <1>13 DEF CallAgain, NoSharedPod, Names
<1>15. ASSUME NEW n \in Names, PatchJobLost(c, n) PROVE PodInv'
  <2>1. jobOwner[n] = Placeholder /\ n \in Slots
    BY <1>15 DEF PatchJobLost
  <2>2. QED
    BY <1>0, <1>15, <2>1 DEF PatchJobLost, NoSharedPod
<1>16. CASE PatchPodLost(c)
  <2>1. claimed[c] \in Names /\ jobOwner[claimed[c]] = CallUser[c]
    BY <1>16 DEF PatchPodLost, Names
  <2>2. QED
    BY <1>16, <2>1 DEF PatchPodLost, NoSharedPod
<1>17. CASE CreateJobLost(c)
  BY <1>14, <1>17 DEF CreateJobLost
<1> QED
  BY <1>1, <1>2, <1>3, <1>4, <1>5, <1>6, <1>7, <1>8, <1>9, <1>10, <1>11,
     <1>12, <1>13, <1>15, <1>16, <1>17 DEF CallStep

\* So does a step of the placeholder goroutines or of Kubernetes.
LEMMA PodOtherStep ==
    ASSUME TypeInv, PodInv,
           \/ CreatePlaceholderJob \/ BootList \/ BootCreate
           \/ \E n \in Names : Kubernetes(n)
    PROVE  PodInv'
<1> USE NameAssumption
        DEF TypeInv, TypeOK, PodInv, JobInv, ListInv, ClaimInv, ResultInv, Held,
            NoSharedPod, kubeVars, jobVars, podVars, callVars
<1>0. ASSUME NEW n \in Slots, NewPlaceholder(n), UNCHANGED <<podVars, callVars>>
      PROVE  PodInv'
  <2>1. jobOwner[n] = Absent /\ podOwner[n] = Absent /\ n \in Names /\ n \notin Users
    BY <1>0 DEF NewPlaceholder, Names
  <2>2. QED
    BY <1>0, <2>1 DEF NewPlaceholder
<1>1. CASE CreatePlaceholderJob
  <2>1. CASE UNCHANGED jobVars
    BY <1>1, <2>1 DEF CreatePlaceholderJob
  <2>2. QED
    BY <1>0, <1>1, <2>1 DEF CreatePlaceholderJob
<1>2. CASE BootList
  BY <1>2 DEF BootList
<1>3. CASE BootCreate
  <2>1. CASE UNCHANGED jobVars
    BY <1>3, <2>1 DEF BootCreate
  <2>2. QED
    BY <1>0, <1>3, <2>1 DEF BootCreate
<1>4. ASSUME NEW n \in Names, StartPod(n) PROVE PodInv'
  BY <1>4 DEF StartPod, Names
<1>5. ASSUME NEW n \in Names, PodBecomesReady(n) PROVE PodInv'
  BY <1>5 DEF PodBecomesReady
<1>6. ASSUME NEW n \in Names, TouchJob(n) PROVE PodInv'
  BY <1>6 DEF TouchJob
<1>7. ASSUME NEW n \in Names, LosePod(n) PROVE PodInv'
  BY <1>7 DEF LosePod
<1>8. ASSUME NEW n \in Names, RemoveJob(n) PROVE PodInv'
  BY <1>8 DEF RemoveJob
<1> QED
  BY <1>1, <1>2, <1>3, <1>4, <1>5, <1>6, <1>7, <1>8 DEF Kubernetes

\* Types and ownership together are inductive.
LEMMA PodInvariant == Spec => [](TypeInv /\ PodInv)
<1>1. TypeInv /\ PodInv /\ [Next]_vars => TypeInv' /\ PodInv'
  <2>1. ASSUME TypeInv, PodInv, UNCHANGED vars PROVE TypeInv' /\ PodInv'
    BY <2>1 DEF TypeInv, TypeOK, TargetNamed, PodInv, JobInv, ListInv, ClaimInv,
                ResultInv, Held, NoSharedPod, vars, kubeVars, callVars
  <2>2. QED
    BY <2>1, TypeCallStep, TypeOtherStep, PodCallStep, PodOtherStep DEF Next
<1>2. QED
  BY <1>1, TypeInit, PodInit, PTL DEF Spec

\* No two users are ever given the same pod, for any number of users, calls
\* and placeholder jobs: the resource version that createJobForUserAbstract
\* names in its patch is what it takes.
THEOREM PodsNotShared == Spec => []NoSharedPod
<1>1. PodInv => NoSharedPod
  BY DEF PodInv
<1>2. QED
  BY <1>1, PodInvariant, PTL

\* The labels of a pod and of its job never name different users, although the
\* two are patched by separate requests.
THEOREM LabelsConsistent == Spec => []LabelsAgree
<1>1. PodInv => LabelsAgree
  BY DEF PodInv, JobInv, LabelsAgree
<1>2. QED
  BY <1>1, PodInvariant, PTL

-----------------------------------------------------------------------------
(* KuberPods implements PodAssignment                                      *)

\* A step that leaves every job's owner and version alone, and gives call c
\* the pod of a job of its user.
LEMMA GiveMaps ==
    ASSUME TypeInv, PodInv, NEW c \in Calls, NEW n \in Names,
           jobOwner[n] = CallUser[c],
           result' = [result EXCEPT ![c] = n],
           UNCHANGED jobVars
    PROVE  Assignment!Next
<1>1. Owner(n) = CallUser[c]
  BY NameAssumption DEF Owner
<1>2. Assignment!Give(c, n)
  BY <1>1 DEF Assignment!Give, Owner, jobVars
<1>3. QED
  BY <1>2 DEF Assignment!Next, Assignment!Names, Names

\* A step that leaves owners, versions and results alone is a stutter.
LEMMA StutterMaps ==
    ASSUME UNCHANGED <<jobOwner, jobRv, result>>
    PROVE  UNCHANGED <<[n \in Names |-> Owner(n)], result>>
  BY DEF Owner

\* The creation of a placeholder keeps a job for anyone.
LEMMA NewPlaceholderMaps ==
    ASSUME TypeInv, PodInv, NEW n \in Slots, NewPlaceholder(n), UNCHANGED result
    PROVE  Assignment!Next
<1> USE NameAssumption DEF TypeInv, TypeOK
<1>1. n \in Names /\ jobOwner[n] = Absent /\ Owner(n) = "unused"
  BY DEF NewPlaceholder, PodInv, JobInv, Owner, Names
<1>2. [m \in Names |-> Owner(m)]' = [[m \in Names |-> Owner(m)] EXCEPT ![n] = "free"]
  BY <1>1 DEF NewPlaceholder, Owner
<1>3. Assignment!Keep(n)
  BY <1>1, <1>2 DEF Assignment!Keep
<1>4. QED
  BY <1>1, <1>3 DEF Assignment!Next, Assignment!Names, Names

\* Every step of GetPodByUser is a step of PodAssignment or a stutter.
LEMMA CallStepMaps ==
    ASSUME TypeInv, PodInv, NEW c \in Calls, CallStep(c) \/ CallAgain(c)
    PROVE  \/ Assignment!Next
           \/ UNCHANGED <<[n \in Names |-> Owner(n)], result>>
<1> USE NameAssumption
        DEF TypeInv, TypeOK, kubeVars, jobVars, podVars, Goto
<1>0. CallUser[c] \in Users /\ CallUser[c] \in Names /\ CallUser[c] \notin Slots
  BY DEF Names
<1>1. ASSUME NEW n \in Names, podOwner[n] = CallUser[c],
             result' = [result EXCEPT ![c] = n], UNCHANGED jobVars
      PROVE  Assignment!Next
  <2>1. jobOwner[n] = CallUser[c]
    BY <1>0, <1>1 DEF PodInv, JobInv
  <2>2. QED
    BY <1>1, <2>1, GiveMaps
<1>2. CASE FindPod(c)
  BY <1>1, <1>2, StutterMaps DEF FindPod
<1>3. CASE ListPlaceholders(c)
  BY <1>3, StutterMaps DEF ListPlaceholders
<1>4. CASE ListAgain(c) \/ ListPods(c) \/ PatchPodFails(c) \/ PatchPodLost(c)
           \/ WatchTimeout(c) \/ WatchCloses(c) \/ CallFails(c)
  BY <1>4, StutterMaps
     DEF ListAgain, ListPods, PatchPodFails, PatchPodLost, WatchTimeout,
         WatchCloses, CallFails
<1>5. CASE PatchPod(c)
  <2>1. claimed[c] \in Names /\ jobOwner[claimed[c]] = CallUser[c]
    BY <1>5 DEF PatchPod, PodInv, JobInv, ClaimInv, Held, Names
  <2>2. QED
    BY <1>5, <2>1, GiveMaps DEF PatchPod
<1>6. ASSUME jobOwner[CallUser[c]] = Absent,
             jobOwner' = [jobOwner EXCEPT ![CallUser[c]] = CallUser[c]],
             jobRv' = [jobRv EXCEPT ![CallUser[c]] = @ + 1],
             UNCHANGED result
      PROVE  Assignment!Next
  <2> DEFINE u == CallUser[c]
  <2>1. Owner(u) \in {"unused", "ended"}
    BY <1>6 DEF Owner
  <2>2. [m \in Names |-> Owner(m)]' = [[m \in Names |-> Owner(m)] EXCEPT ![u] = u]
    BY <1>0, <1>6 DEF Owner
  <2>3. Assignment!Assign(u, u)
    BY <1>0, <1>6, <2>1, <2>2 DEF Assignment!Assign
  <2>4. QED
    BY <1>0, <2>3 DEF Assignment!Next, Assignment!Names, Names
<1>11. CASE CreateJob(c)
  BY <1>6, <1>11, StutterMaps DEF CreateJob
<1>12. CASE CreateJobLost(c)
  BY <1>6, <1>12 DEF CreateJobLost
<1>7. CASE WatchReady(c)
  BY <1>1, <1>7 DEF WatchReady
<1>8. ASSUME NEW n \in Names, PatchJob(c, n) \/ PatchJobLost(c, n)
      PROVE  Assignment!Next
  <2> DEFINE u == CallUser[c]
  <2>1. jobOwner[n] = Placeholder /\ n \in Slots
    BY <1>8 DEF PatchJob, PatchJobLost, PodInv, JobInv, ListInv
  <2>2. Owner(n) = "free"
    BY <2>1 DEF Owner
  <2>3. [m \in Names |-> Owner(m)]' = [[m \in Names |-> Owner(m)] EXCEPT ![n] = u]
    BY <1>0, <1>8 DEF PatchJob, PatchJobLost, Owner
  <2>4. Assignment!Assign(n, u)
    BY <1>8, <2>1, <2>2, <2>3 DEF Assignment!Assign, PatchJob, PatchJobLost
  <2>5. QED
    BY <1>0, <2>4 DEF Assignment!Next, Assignment!Names, Names
<1>9. ASSUME NEW n \in Names, PatchJobFails(c, n)
      PROVE  UNCHANGED <<[m \in Names |-> Owner(m)], result>>
  BY <1>9, StutterMaps DEF PatchJobFails
<1>10. CASE CallAgain(c)
  <2>1. Assignment!Forget(c)
    BY <1>10 DEF CallAgain, Assignment!Forget, Owner
  <2>2. QED
    BY <2>1 DEF Assignment!Next
<1> QED
  BY <1>2, <1>3, <1>4, <1>5, <1>7, <1>8, <1>9, <1>10, <1>11, <1>12 DEF CallStep

\* So is every step of the placeholder goroutines and of Kubernetes.
LEMMA OtherStepMaps ==
    ASSUME TypeInv, PodInv,
           \/ CreatePlaceholderJob \/ BootList \/ BootCreate
           \/ \E n \in Names : Kubernetes(n)
    PROVE  \/ Assignment!Next
           \/ UNCHANGED <<[n \in Names |-> Owner(n)], result>>
<1> USE NameAssumption
        DEF TypeInv, TypeOK, kubeVars, jobVars, podVars, callVars
<1>1. CASE CreatePlaceholderJob
  BY <1>1, NewPlaceholderMaps, StutterMaps DEF CreatePlaceholderJob
<1>2. CASE BootList
  BY <1>2, StutterMaps DEF BootList
<1>3. CASE BootCreate
  BY <1>3, NewPlaceholderMaps, StutterMaps DEF BootCreate
<1>4. ASSUME NEW n \in Names, StartPod(n) \/ PodBecomesReady(n) \/ LosePod(n)
      PROVE  UNCHANGED <<[m \in Names |-> Owner(m)], result>>
  BY <1>4, StutterMaps DEF StartPod, PodBecomesReady, LosePod
<1>5. ASSUME NEW n \in Names, TouchJob(n)
      PROVE  UNCHANGED <<[m \in Names |-> Owner(m)], result>>
  BY <1>5 DEF TouchJob, Owner
<1>6. ASSUME NEW n \in Names, RemoveJob(n) PROVE Assignment!Next
  <2>1. jobOwner[n] # Absent /\ jobRv[n] > 0
    BY <1>6 DEF RemoveJob, PodInv, JobInv
  <2>2. Owner(n) \notin {"unused", "ended"}
    BY <2>1 DEF Owner
  <2>3. [m \in Names |-> Owner(m)]' = [[m \in Names |-> Owner(m)] EXCEPT ![n] = "ended"]
    <3>1. Owner(n)' = "ended"
      BY <1>6, <2>1 DEF RemoveJob, Owner
    <3>2. \A m \in Names : m # n => Owner(m)' = Owner(m)
      BY <1>6 DEF RemoveJob, Owner
    <3>3. QED
      BY <3>1, <3>2
  <2>4. Assignment!End(n)
    BY <1>6, <2>2, <2>3 DEF Assignment!End, RemoveJob
  <2>5. QED
    BY <2>4 DEF Assignment!Next, Assignment!Names, Names
<1> QED
  BY <1>1, <1>2, <1>3, <1>4, <1>5, <1>6 DEF Kubernetes

\* The protocol of labels and resource versions implements PodAssignment: a job
\* belongs to at most one user in its life and is given to that user only.
THEOREM ImplementsAssignment == Spec => AssignmentSpec
<1>1. Init => Assignment!Init
  BY DEF Init, Assignment!Init, Assignment!Names, Names, Owner
<1>2. TypeInv /\ PodInv /\ [Next]_vars
          => [Assignment!Next]_<<[n \in Names |-> Owner(n)], result>>
  <2>1. ASSUME UNCHANGED vars
        PROVE  UNCHANGED <<[n \in Names |-> Owner(n)], result>>
    BY <2>1, StutterMaps DEF vars, kubeVars, callVars
  <2>2. QED
    BY <2>1, CallStepMaps, OtherStepMaps DEF Next
<1>3. QED
  BY <1>1, <1>2, PodInvariant, PTL DEF Spec, AssignmentSpec, Assignment!Spec

-----------------------------------------------------------------------------
(* LfsxPeer                                                                *)

\* A goroutine that dials, or adds what it dialed, holds targetSync; when it
\* adds, there is a target.
LockInv ==
    \A t \in Threads :
        /\ tpc[t] \in {"dial", "add"} => targetSync = t
        /\ tpc[t] = "add" => target # Nil

\* Close cancels together with its mark, at a moment when nobody dials, and
\* nobody starts to dial later.
CancelInv ==
    /\ canceled <=> intentional
    /\ intentional => \A t \in Threads : tpc[t] # "dial"

\* A target that is no longer open has a worker that is about to reset it.
LostInv ==
    target # Nil /\ conn[target] # "open" /\ ~intentional =>
        \E w \in Workers : tpc[w] \in {"load", "reset"}

\* A peer without a target has a worker under way.
ResetInv ==
    created /\ target = Nil /\ ~intentional =>
        \E w \in Workers : tpc[w] # "idle"

\* What is proved together, over the types.
BridgeInv == PeerTypeOK /\ LockInv /\ CancelInv /\ LostInv /\ ResetInv

-----------------------------------------------------------------------------
\* Every behaviour starts in the invariant: nothing is connected and only the
\* creator is under way.
LEMMA InitBridge == PeerInit => BridgeInv /\ OpenIsPinged
  <1> SUFFICES ASSUME PeerInit PROVE BridgeInv /\ OpenIsPinged
    OBVIOUS
  <1>1. PeerTypeOK
    <2>1. tpc \in [Threads -> ThreadPC]
      BY DEF PeerInit, ThreadPC
    <2>2. dials \in 0 .. MaxDials
      BY DialsAssumption DEF PeerInit
    <2> QED
      BY <2>1, <2>2 DEF PeerInit, PeerTypeOK, ClosePC
  <1>2. LockInv /\ CancelInv /\ LostInv /\ ResetInv
    BY DEF PeerInit, LockInv, CancelInv, LostInv, ResetInv
  <1>3. OpenIsPinged
    BY DEF PeerInit, OpenIsPinged
  <1> QED
    BY <1>1, <1>2, <1>3 DEF BridgeInv

\* Every step of connectToLfsxSocket keeps the types and the ownership of
\* targetSync.
LEMMA ConnectTypes ==
    ASSUME PeerTypeOK, LockInv, NEW t \in Threads, ConnectStep(t)
    PROVE  PeerTypeOK' /\ LockInv'
  <1> USE DialsAssumption, NilAssumption DEF PeerTypeOK
  <1>1. CASE Connect(t)
    BY <1>1 DEF Connect, PeerGoto, OnError, ThreadPC, clientVars, closeVars, LockInv
  <1>2. CASE DialOk(t)
    BY <1>2 DEF DialOk, PeerGoto, ThreadPC, clientVars, closeVars, LockInv
  <1>3. CASE DialFails(t)
    BY <1>3 DEF DialFails, clientVars, closeVars, LockInv
  <1>4. CASE GiveUp(t)
    BY <1>4 DEF GiveUp, PeerGoto, OnError, ThreadPC, clientVars, closeVars, LockInv
  <1>5. CASE AddTarget(t)
    <2>1. target \in Conns
      BY <1>5 DEF AddTarget, PeerGoto, LockInv
    <2>2. pinged' \subseteq Conns \cup Clients
      BY <1>5, <2>1 DEF AddTarget
    <2> QED
      BY <1>5, <2>2 DEF AddTarget, PeerGoto, ThreadPC, clientVars, closeVars,
                        LockInv
  <1> QED
    BY <1>1, <1>2, <1>3, <1>4, <1>5 DEF ConnectStep

\* So does every step of tryToReconnectToLfsx: the target is reset by a worker
\* only while nobody holds targetSync.
LEMMA ReconnectTypes ==
    ASSUME PeerTypeOK, LockInv, NEW w \in Workers, ReconnectStep(w)
    PROVE  PeerTypeOK' /\ LockInv'
  <1> USE NilAssumption DEF PeerTypeOK, Threads
  <1>1. CASE LoadIntentional(w)
    BY <1>1 DEF LoadIntentional, PeerGoto, ThreadPC, clientVars, closeVars, LockInv
  <1>2. CASE ResetTarget(w)
    BY <1>2 DEF ResetTarget, PeerGoto, ThreadPC, clientVars, closeVars, LockInv
  <1>3. CASE Wake(w)
    BY <1>3 DEF Wake, PeerGoto, ThreadPC, clientVars, closeVars, LockInv
  <1>4. CASE CancelSleep(w)
    BY <1>4 DEF CancelSleep, PeerGoto, ThreadPC, clientVars, closeVars, LockInv
  <1> QED
    BY <1>1, <1>2, <1>3, <1>4 DEF ReconnectStep

\* And every event of a connection to the application.
LEMMA BackendTypes ==
    ASSUME PeerTypeOK, LockInv, NEW c \in Conns, BackendStep(c)
    PROVE  PeerTypeOK' /\ LockInv'
  <1> USE NilAssumption DEF PeerTypeOK, Threads
  <1>1. CASE CloseFrame(c)
    BY <1>1 DEF CloseFrame, StartReconnect, PeerGoto, ThreadPC, clientVars,
                closeVars, LockInv
  <1>2. CASE TargetCloses(c)
    BY <1>2 DEF TargetCloses, StartReconnect, PeerGoto, ThreadPC, clientVars,
                closeVars, LockInv
  <1>3. CASE OnTargetMessage(c)
    BY <1>3 DEF OnTargetMessage, clientVars, closeVars, LockInv
  <1>4. CASE EndTargetMessage(c)
    BY <1>4 DEF EndTargetMessage, clientVars, closeVars, LockInv
  <1> QED
    BY <1>1, <1>2, <1>3, <1>4 DEF BackendStep

\* The client's side does not touch the goroutines, the target or its lock.
LEMMA ClientTypes ==
    ASSUME PeerTypeOK, NEW k \in Clients, ClientStep(k)
    PROVE  /\ PeerTypeOK'
           /\ UNCHANGED <<tpc, conn, target, targetSync, created, intentional,
                          canceled>>
           /\ pinged \cap Conns \subseteq pinged'
  <1> USE NilAssumption DEF PeerTypeOK
  <1>1. CASE AttachClient(k)
    BY <1>1 DEF AttachClient, closeVars
  <1>2. CASE ClientCloses(k)
    BY <1>2 DEF ClientCloses, closeVars
  <1>3. CASE ClearSource(k)
    BY <1>3 DEF ClearSource, closeVars
  <1>4. CASE OnSourceMessage(k)
    BY <1>4 DEF OnSourceMessage, clientVars
  <1>5. CASE EndSourceMessage(k)
    BY <1>5 DEF EndSourceMessage, clientVars
  <1> QED
    BY <1>1, <1>2, <1>3, <1>4, <1>5 DEF ClientStep

\* Close, too, keeps the types and leaves the goroutines and the target alone.
LEMMA CloseTypes ==
    ASSUME PeerTypeOK, NEW x \in Closers, CallClose(x) \/ CloseStep(x)
    PROVE  /\ PeerTypeOK'
           /\ UNCHANGED <<tpc, target, targetSync, created>>
  <1> USE DEF PeerTypeOK
  <1>1. CASE CallClose(x)
    BY <1>1 DEF CallClose, ClosePC, clientVars
  <1>2. CASE LockSource(x)
    BY <1>2 DEF LockSource, ClosePC, clientVars
  <1>3. CASE FinishClose(x)
    <2>1. client' \in [Clients -> {"down", "open", "closed"}]
      BY <1>3 DEF FinishClose, Shut
    <2>2. conn' \in [Conns -> {"down", "open", "closing"}]
      BY <1>3 DEF FinishClose, Shut
    <2> QED
      BY <1>3, <2>1, <2>2 DEF FinishClose, ClosePC
  <1> QED
    BY <1>1, <1>2, <1>3 DEF CloseStep

\* The remaining steps: the engine stops after the cancel, the keepalive drops
\* closed connections.
LEMMA EngineTypes ==
    ASSUME PeerTypeOK, EngineStop \/ PingClosed
    PROVE  /\ PeerTypeOK'
           /\ UNCHANGED <<tpc, target, targetSync, created, intentional,
                          canceled>>
  <1> USE DEF PeerTypeOK
  <1>1. CASE EngineStop
    BY <1>1 DEF EngineStop, clientVars, closeVars
  <1>2. CASE PingClosed
    BY <1>2 DEF PingClosed, clientVars, closeVars
  <1> QED
    BY <1>1, <1>2

\* A sender takes targetSync when it is free, gives it back when it holds it,
\* and changes nothing else.
LEMMA SenderTypes ==
    ASSUME PeerTypeOK, LockInv, NEW m \in Senders,
           SendMessageToLFS(m) \/ EndSendMessage(m)
    PROVE  /\ PeerTypeOK' /\ LockInv'
           /\ UNCHANGED <<tpc, conn, target, created, intentional, canceled,
                          pinged>>
  <1> USE NilAssumption DEF PeerTypeOK, LockInv, clientVars, closeVars
  <1>1. CASE SendMessageToLFS(m)
    BY <1>1 DEF SendMessageToLFS
  <1>2. CASE EndSendMessage(m)
    BY <1>2 DEF EndSendMessage
  <1> QED
    BY <1>1, <1>2

\* Every step keeps the types and the ownership of targetSync.
LEMMA StepTypes == PeerTypeOK /\ LockInv /\ [PeerNext]_peerVars => PeerTypeOK' /\ LockInv'
  <1> SUFFICES ASSUME PeerTypeOK, LockInv, [PeerNext]_peerVars
               PROVE  PeerTypeOK' /\ LockInv'
    OBVIOUS
  <1>1. ASSUME NEW t \in Threads, ConnectStep(t) PROVE PeerTypeOK' /\ LockInv'
    BY <1>1, ConnectTypes
  <1>2. ASSUME NEW w \in Workers, ReconnectStep(w) PROVE PeerTypeOK' /\ LockInv'
    BY <1>2, ReconnectTypes
  <1>3. ASSUME NEW c \in Conns, BackendStep(c) PROVE PeerTypeOK' /\ LockInv'
    BY <1>3, BackendTypes
  <1>4. ASSUME NEW k \in Clients, ClientStep(k) PROVE PeerTypeOK' /\ LockInv'
    BY <1>4, ClientTypes DEF LockInv
  <1>5. ASSUME NEW x \in Closers, CallClose(x) \/ CloseStep(x)
        PROVE  PeerTypeOK' /\ LockInv'
    BY <1>5, CloseTypes DEF LockInv
  <1>6. CASE EngineStop \/ PingClosed
    BY <1>6, EngineTypes DEF LockInv
  <1>7. CASE UNCHANGED peerVars
    BY <1>7 DEF peerVars, PeerTypeOK, LockInv
  <1>8. ASSUME NEW m \in Senders, SendMessageToLFS(m) \/ EndSendMessage(m)
        PROVE  PeerTypeOK' /\ LockInv'
    BY <1>8, SenderTypes
  <1> QED
    BY <1>1, <1>2, <1>3, <1>4, <1>5, <1>6, <1>7, <1>8 DEF PeerNext

\* A step of connectToLfsxSocket keeps the rest of the invariant.  A worker
\* leaves only with a target in place.
LEMMA ConnectBridge ==
    ASSUME BridgeInv, NEW t \in Threads, ConnectStep(t)
    PROVE  CancelInv' /\ LostInv' /\ ResetInv'
  <1> USE DEF BridgeInv, PeerTypeOK
  <1>1. CASE Connect(t)
    BY <1>1, CreatorAssumption
       DEF Connect, PeerGoto, OnError, closeVars, CancelInv, LostInv, ResetInv,
           Threads
  <1>2. CASE DialOk(t)
    BY <1>2, NilAssumption
       DEF DialOk, PeerGoto, closeVars, CancelInv, LostInv, ResetInv, Threads
  <1>3. CASE DialFails(t)
    BY <1>3 DEF DialFails, closeVars, CancelInv, LostInv, ResetInv
  <1>4. CASE GiveUp(t)
    BY <1>4, CreatorAssumption
       DEF GiveUp, PeerGoto, OnError, closeVars, CancelInv, LostInv, ResetInv,
           Threads
  <1>5. CASE AddTarget(t)
    BY <1>5 DEF AddTarget, PeerGoto, closeVars, CancelInv, LostInv, ResetInv,
                LockInv, Threads
  <1> QED
    BY <1>1, <1>2, <1>3, <1>4, <1>5 DEF ConnectStep

\* A step of tryToReconnectToLfsx does.  A worker that stops has seen Close.
LEMMA ReconnectBridge ==
    ASSUME BridgeInv, NEW w \in Workers, ReconnectStep(w)
    PROVE  CancelInv' /\ LostInv' /\ ResetInv'
  <1> USE DEF BridgeInv, PeerTypeOK, Threads
  <1>1. CASE LoadIntentional(w)
    BY <1>1 DEF LoadIntentional, PeerGoto, closeVars, CancelInv, LostInv, ResetInv
  <1>2. CASE ResetTarget(w)
    BY <1>2 DEF ResetTarget, PeerGoto, closeVars, CancelInv, LostInv, ResetInv
  <1>3. CASE Wake(w)
    BY <1>3 DEF Wake, PeerGoto, closeVars, CancelInv, LostInv, ResetInv
  <1>4. CASE CancelSleep(w)
    BY <1>4 DEF CancelSleep, PeerGoto, closeVars, CancelInv, LostInv, ResetInv
  <1> QED
    BY <1>1, <1>2, <1>3, <1>4 DEF ReconnectStep

\* An event of a connection does: the handler of a close starts a worker.
LEMMA BackendBridge ==
    ASSUME BridgeInv, NEW c \in Conns, BackendStep(c)
    PROVE  CancelInv' /\ LostInv' /\ ResetInv'
  <1> USE DEF BridgeInv, PeerTypeOK, Threads
  <1>1. CASE CloseFrame(c)
    BY <1>1 DEF CloseFrame, StartReconnect, PeerGoto, closeVars, CancelInv,
                LostInv, ResetInv
  <1>2. CASE TargetCloses(c)
    BY <1>2 DEF TargetCloses, StartReconnect, PeerGoto, closeVars, CancelInv,
                LostInv, ResetInv
  <1>3. CASE OnTargetMessage(c) \/ EndTargetMessage(c)
    BY <1>3 DEF OnTargetMessage, EndTargetMessage, closeVars, CancelInv,
                LostInv, ResetInv
  <1> QED
    BY <1>1, <1>2, <1>3 DEF BackendStep

\* Close does: it marks and cancels in one critical section of targetSync.
LEMMA CloseBridge ==
    ASSUME BridgeInv, NEW x \in Closers, CallClose(x) \/ CloseStep(x)
    PROVE  CancelInv' /\ LostInv' /\ ResetInv'
  <1> USE DEF BridgeInv, PeerTypeOK
  <1>1. CASE CallClose(x)
    BY <1>1 DEF CallClose, CancelInv, LostInv, ResetInv
  <1>2. CASE LockSource(x)
    BY <1>2 DEF LockSource, CancelInv, LostInv, ResetInv
  <1>3. CASE FinishClose(x)
    <2>1. \A t \in Threads : tpc[t] # "dial"
      BY <1>3, NilAssumption DEF FinishClose, LockInv
    <2>2. intentional' /\ canceled' /\ tpc' = tpc
      BY <1>3 DEF FinishClose, CancelInv
    <2> QED
      BY <2>1, <2>2 DEF CancelInv, LostInv, ResetInv
  <1> QED
    BY <1>1, <1>2, <1>3 DEF CloseStep

\* Every step keeps the whole invariant.
LEMMA StepBridge == BridgeInv /\ [PeerNext]_peerVars => BridgeInv'
  <1> SUFFICES ASSUME BridgeInv, [PeerNext]_peerVars PROVE BridgeInv'
    OBVIOUS
  <1>1. PeerTypeOK' /\ LockInv'
    BY StepTypes DEF BridgeInv
  <1>2. CancelInv' /\ LostInv' /\ ResetInv'
    <2>1. ASSUME NEW t \in Threads, ConnectStep(t)
          PROVE  CancelInv' /\ LostInv' /\ ResetInv'
      BY <2>1, ConnectBridge
    <2>2. ASSUME NEW w \in Workers, ReconnectStep(w)
          PROVE  CancelInv' /\ LostInv' /\ ResetInv'
      BY <2>2, ReconnectBridge
    <2>3. ASSUME NEW c \in Conns, BackendStep(c)
          PROVE  CancelInv' /\ LostInv' /\ ResetInv'
      BY <2>3, BackendBridge
    <2>4. ASSUME NEW k \in Clients, ClientStep(k)
          PROVE  CancelInv' /\ LostInv' /\ ResetInv'
      BY <2>4, ClientTypes DEF BridgeInv, CancelInv, LostInv, ResetInv
    <2>5. ASSUME NEW x \in Closers, CallClose(x) \/ CloseStep(x)
          PROVE  CancelInv' /\ LostInv' /\ ResetInv'
      BY <2>5, CloseBridge
    <2>6. CASE EngineStop
      <3>1. canceled
        BY <2>6 DEF EngineStop
      <3> QED
        BY <2>6, <3>1, EngineTypes DEF BridgeInv, CancelInv, LostInv, ResetInv
    <2>7. CASE PingClosed
      <3>1. conn' = conn
        BY <2>7 DEF PingClosed
      <3> QED
        BY <2>7, <3>1, EngineTypes DEF BridgeInv, CancelInv, LostInv, ResetInv
    <2>8. CASE UNCHANGED peerVars
      BY <2>8 DEF peerVars, BridgeInv, CancelInv, LostInv, ResetInv
    <2>9. ASSUME NEW m \in Senders, SendMessageToLFS(m) \/ EndSendMessage(m)
          PROVE  CancelInv' /\ LostInv' /\ ResetInv'
      BY <2>9, SenderTypes DEF BridgeInv, CancelInv, LostInv, ResetInv
    <2> QED
      BY <2>1, <2>2, <2>3, <2>4, <2>5, <2>6, <2>7, <2>8, <2>9 DEF PeerNext
  <1> QED
    BY <1>1, <1>2 DEF BridgeInv

\* The invariant holds throughout.
THEOREM Bridge == PeerSpec => []BridgeInv
  <1>1. PeerInit => BridgeInv
    BY InitBridge
  <1> QED
    BY <1>1, StepBridge, PTL DEF PeerSpec

\* PeerTypeOK is an invariant of the bridge, for any number of goroutines,
\* connections and clients.
THEOREM PeerTypeCorrect == PeerSpec => []PeerTypeOK
  <1>1. BridgeInv => PeerTypeOK
    BY DEF BridgeInv
  <1> QED
    BY <1>1, Bridge, PTL

\* A peer that was not closed has its connection to the application or a
\* worker that will make one (tryToReconnectToLfsx).
THEOREM Reconnects == PeerSpec => []KeepsReconnecting
  <1>1. BridgeInv => KeepsReconnecting
    BY DEF BridgeInv, LostInv, ResetInv, KeepsReconnecting
  <1> QED
    BY <1>1, Bridge, PTL

\* After Close (peer_lfsx.go) nothing connects to the application any more.
THEOREM ClosedStaysClosed == PeerSpec => NoConnectAfterClose
  <1> DEFINE Quiet == intentional =>
                          \A c \in Conns : conn'[c] = "open" => conn[c] = "open"
  <1>1. BridgeInv /\ [PeerNext]_peerVars => [Quiet]_peerVars
    <2> SUFFICES ASSUME BridgeInv, PeerNext, intentional, NEW c \in Conns,
                        conn'[c] = "open"
                 PROVE  conn[c] = "open"
      BY DEF peerVars
    <2> USE DEF BridgeInv, PeerTypeOK
    <2>1. ASSUME NEW t \in Threads, ConnectStep(t) PROVE conn' = conn
      BY <2>1 DEF ConnectStep, Connect, DialOk, DialFails, GiveUp, AddTarget,
                  PeerGoto, CancelInv
    <2>2. ASSUME NEW w \in Workers, ReconnectStep(w) PROVE conn' = conn
      BY <2>2 DEF ReconnectStep, LoadIntentional, ResetTarget, Wake, CancelSleep
    <2>3. ASSUME NEW d \in Conns, BackendStep(d) PROVE conn[c] = "open"
      BY <2>3 DEF BackendStep, CloseFrame, TargetCloses, OnTargetMessage,
                  EndTargetMessage
    <2>4. ASSUME NEW k \in Clients, ClientStep(k) PROVE conn' = conn
      BY <2>4, ClientTypes
    <2>5. ASSUME NEW x \in Closers, CallClose(x) \/ CloseStep(x)
          PROVE  conn[c] = "open"
      BY <2>5 DEF CloseStep, CallClose, LockSource, FinishClose, Shut
    <2>6. CASE EngineStop \/ PingClosed
      BY <2>6 DEF EngineStop, PingClosed
    <2>7. ASSUME NEW m \in Senders, SendMessageToLFS(m) \/ EndSendMessage(m)
          PROVE  conn' = conn
      BY <2>7, SenderTypes
    <2> QED
      BY <2>1, <2>2, <2>3, <2>4, <2>5, <2>6, <2>7 DEF PeerNext
  <1> QED
    BY <1>1, Bridge, PTL DEF PeerSpec, NoConnectAfterClose

\* No step takes an open connection out of the keepalive list, and one that
\* is made is added before targetSync is released.
LEMMA StepPinged ==
    ASSUME BridgeInv, OpenIsPinged, [PeerNext]_peerVars
    PROVE  OpenIsPinged'
  <1> USE DEF BridgeInv, PeerTypeOK, Threads
  <1>1. ASSUME NEW t \in Threads, ConnectStep(t) PROVE OpenIsPinged'
    <2>1. CASE Connect(t)
      BY <2>1 DEF Connect, PeerGoto, OnError, OpenIsPinged
    <2>2. CASE DialOk(t)
      <3>1. \A u \in Threads : tpc[u] # "add"
        BY <2>2, NilAssumption DEF DialOk, PeerGoto, LockInv
      <3> QED
        BY <2>2, <3>1 DEF DialOk, PeerGoto, OpenIsPinged
    <2>3. CASE DialFails(t)
      BY <2>3 DEF DialFails, OpenIsPinged
    <2>4. CASE GiveUp(t)
      BY <2>4 DEF GiveUp, PeerGoto, OnError, OpenIsPinged
    <2>5. CASE AddTarget(t)
      BY <2>5 DEF AddTarget, PeerGoto, OpenIsPinged
    <2> QED
      BY <1>1, <2>1, <2>2, <2>3, <2>4, <2>5 DEF ConnectStep
  <1>2. ASSUME NEW w \in Workers, ReconnectStep(w) PROVE OpenIsPinged'
    <2>1. CASE ResetTarget(w)
      <3>1. \A u \in Threads : tpc[u] # "add"
        BY <2>1, NilAssumption DEF ResetTarget, LockInv
      <3> QED
        BY <2>1, <3>1 DEF ResetTarget, PeerGoto, OpenIsPinged
    <2>2. CASE LoadIntentional(w) \/ Wake(w) \/ CancelSleep(w)
      BY <2>2 DEF LoadIntentional, Wake, CancelSleep, PeerGoto, OpenIsPinged
    <2> QED
      BY <1>2, <2>1, <2>2 DEF ReconnectStep
  <1>3. ASSUME NEW c \in Conns, BackendStep(c) PROVE OpenIsPinged'
    <2>1. CASE CloseFrame(c) \/ TargetCloses(c)
      BY <2>1 DEF CloseFrame, TargetCloses, StartReconnect, PeerGoto, OpenIsPinged
    <2>2. CASE OnTargetMessage(c) \/ EndTargetMessage(c)
      BY <2>2 DEF OnTargetMessage, EndTargetMessage, OpenIsPinged
    <2> QED
      BY <1>3, <2>1, <2>2 DEF BackendStep
  <1>4. ASSUME NEW k \in Clients, ClientStep(k) PROVE OpenIsPinged'
    BY <1>4, ClientTypes DEF OpenIsPinged
  <1>5. ASSUME NEW x \in Closers, CallClose(x) \/ CloseStep(x)
        PROVE  OpenIsPinged'
    <2>1. CASE CallClose(x) \/ LockSource(x)
      BY <2>1 DEF CallClose, LockSource, OpenIsPinged
    <2>2. CASE FinishClose(x)
      BY <2>2, NilAssumption DEF FinishClose, Shut, OpenIsPinged
    <2> QED
      BY <1>5, <2>1, <2>2 DEF CloseStep
  <1>6. CASE EngineStop
    BY <1>6 DEF EngineStop, OpenIsPinged
  <1>7. CASE PingClosed
    BY <1>7 DEF PingClosed, OpenIsPinged
  <1>8. CASE UNCHANGED peerVars
    BY <1>8 DEF peerVars, OpenIsPinged
  <1>9. ASSUME NEW m \in Senders, SendMessageToLFS(m) \/ EndSendMessage(m) PROVE OpenIsPinged'
    BY <1>9, SenderTypes DEF OpenIsPinged
  <1> QED
    BY <1>1, <1>2, <1>3, <1>4, <1>5, <1>6, <1>7, <1>8, <1>9 DEF PeerNext

\* Every open connection to the application is kept alive, those included
\* that are no longer the target.
THEOREM KeptAlive == PeerSpec => []OpenIsPinged
  <1>1. PeerInit => OpenIsPinged
    BY InitBridge
  <1>2. BridgeInv /\ OpenIsPinged /\ [PeerNext]_peerVars => OpenIsPinged'
    BY StepPinged
  <1> QED
    BY <1>1, <1>2, Bridge, PTL DEF PeerSpec
====
