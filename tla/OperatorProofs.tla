-------------------------- MODULE OperatorProofs ---------------------------
(* What else the controller keeps: theorems for any number of replicas, and *)
(* theorems for one.                                                        *)
EXTENDS LifecycleProofs

(* The pods of the job, for any number of replicas. *)

\* A pass gets to know a pod only from the job, and is about to suspend the job
\* only after it has seen a pod that is not the actor.
PodBecomes(x, y) ==
    /\ y.pod \in {x.pod, 0} \cup job.pods
    /\ y.at = "suspend" /\ y # x =>
         /\ y.ops = x.ops /\ y.pod \in job.pods
         /\ x.ops.actor \notin {0, y.pod}

LEMMA IdleFields == Idle.at = "idle" /\ Idle.ops = NoOperation /\ Idle.pod = 0
  BY Zenon DEF Idle

LEMMA SuspendListPodsBecomes ==
    ASSUME Inv, NEW p \in Replicas, SuspendListPods(p)
    PROVE  PodBecomes(pass[p], pass'[p])
  <1> DEFINE m == Snapshot(p)
  <1>0. pass \in [Replicas -> Passes] /\ pass[p].ops = m
    BY SnapshotFacts DEF Snapshot
  <1>1. CASE Goto(p, "check")
    <2>1. pass' = [pass EXCEPT ![p].at = "check"]
      BY <1>1 DEF Goto
    <2>2. pass'[p] = [pass[p] EXCEPT !.at = "check"]
      BY <1>0, <2>1, Zenon
    <2>3. pass'[p].pod = pass[p].pod
      BY <1>0, <2>2, Zenon DEF Passes
    <2>4. pass'[p].at = "check"
      BY <1>0, <2>2, Zenon DEF Passes
    <2> QED BY <2>3, <2>4 DEF PodBecomes
  <1>2. CASE ~Goto(p, "check")
    <2>1. PICK k \in job.pods :
            pass' = [pass EXCEPT ![p].pod = k,
                       ![p].at = IF m.actor = 0 THEN "annotate"
                                 ELSE IF m.actor # k THEN "suspend" ELSE "check"]
      BY <1>2, Zenon DEF SuspendListPods
    <2> DEFINE s == IF m.actor = 0 THEN "annotate"
                    ELSE IF m.actor # k THEN "suspend" ELSE "check"
    <2>2. s = "suspend" => m.actor \notin {0, k}
      OBVIOUS
    <2> HIDE DEF s
    <2>3. pass' = [pass EXCEPT ![p].pod = k, ![p].at = s]
      BY <2>1 DEF s
    <2>4. pass'[p] = [pass[p] EXCEPT !.pod = k, !.at = s]
      BY <1>0, <2>3, Zenon
    <2>5. pass'[p].pod = k /\ pass'[p].at = s /\ pass'[p].ops = pass[p].ops
      BY <1>0, <2>4, Zenon DEF Passes
    <2> QED BY <1>0, <2>2, <2>5 DEF PodBecomes
  <1> QED BY <1>1, <1>2

\* Every other step leaves the pod alone or forgets it.
LEMMA PodStays ==
    ASSUME Inv, NEW p \in Replicas, Replica(p), ~SuspendListPods(p)
    PROVE  pass'[p].pod \in {pass[p].pod, 0}
  <1>0. pass \in [Replicas -> Passes]
    BY SnapshotFacts
  <1>1. CASE \E again : Return(p, again)
    <2>1. pass'[p] = Idle
      BY <1>0, <1>1 DEF Return
    <2>2. Idle.pod = 0
      BY Zenon DEF Idle
    <2> QED BY <2>1, <2>2
  <1>2. CASE \E s : Goto(p, s)
    <2>1. PICK s : pass' = [pass EXCEPT ![p].at = s]
      BY <1>2 DEF Goto
    <2>2. pass'[p] = [pass[p] EXCEPT !.at = s]
      BY <1>0, <2>1, Zenon
    <2>3. pass'[p].pod = pass[p].pod
      BY <1>0, <2>2, Zenon DEF Passes
    <2> QED BY <2>3
  <1>3. CASE Reconcile(p)
    <2> DEFINE s == IF cache[p].jobRef THEN "suspendGet" ELSE "check"
    <2>1. \/ pass' = pass
          \/ pass' = [pass EXCEPT ![p] = [Idle EXCEPT !.at = s, !.ops = cache[p]]]
      BY <1>3 DEF Reconcile
    <2> HIDE DEF s
    <2>2. pass' = pass \/ pass'[p] = [Idle EXCEPT !.at = s, !.ops = cache[p]]
      BY <1>0, <2>1, Zenon
    <2>3. [Idle EXCEPT !.at = s, !.ops = cache[p]].pod = Idle.pod
      BY IdleType, Zenon DEF Passes
    <2>4. Idle.pod = 0
      BY Zenon DEF Idle
    <2> QED BY <2>2, <2>3, <2>4
  <1>4. CASE SuspendGetJob(p)
    <2>1. \/ pass' = [pass EXCEPT ![p].at = "check"]
          \/ pass' = [pass EXCEPT ![p].at = "suspendList", ![p].job = job.id]
      BY <1>4, Zenon DEF SuspendGetJob
    <2>2. CASE pass' = [pass EXCEPT ![p].at = "check"]
      <3>2. pass'[p] = [pass[p] EXCEPT !.at = "check"]
        BY <1>0, <2>2, Zenon
      <3>3. pass'[p].pod = pass[p].pod
        BY <1>0, <3>2, Zenon DEF Passes
      <3> QED BY <3>3
    <2>3. CASE pass' = [pass EXCEPT ![p].at = "suspendList", ![p].job = job.id]
      <3>2. pass'[p] = [pass[p] EXCEPT !.at = "suspendList", !.job = job.id]
        BY <1>0, <2>3, Zenon
      <3>3. pass'[p].pod = pass[p].pod
        BY <1>0, <3>2, Zenon DEF Passes
      <3> QED BY <3>3
    <2> QED BY <2>1, <2>2, <2>3
  <1>5. CASE CopyInput(p)
    <2>1. CASE Return(p, TRUE)
      BY <1>1, <2>1
    <2>2. CASE ~Return(p, TRUE)
      <3>1. PICK c : pass' = [pass EXCEPT ![p].copy = c, ![p].at = "copyRecord"]
        BY <1>5, <2>2, Zenon DEF CopyInput
      <3>2. pass'[p] = [pass[p] EXCEPT !.copy = c, !.at = "copyRecord"]
        BY <1>0, <3>1, Zenon
      <3>3. pass'[p].pod = pass[p].pod
        BY <1>0, <3>2, Zenon DEF Passes
      <3> QED BY <3>3
    <2> QED BY <2>1, <2>2
  <1>6. CASE FetchJobStatus(p)
    <2>1. CASE Return(p, TRUE)
      BY <1>1, <2>1
    <2>2. CASE ~Return(p, TRUE)
      <3>1. pass' = [pass EXCEPT ![p].result = JobStatus, ![p].at = "result"]
        BY <1>6, <2>2, Zenon DEF FetchJobStatus
      <3>2. pass'[p] = [pass[p] EXCEPT !.result = JobStatus, !.at = "result"]
        BY <1>0, <3>1, Zenon
      <3>3. pass'[p].pod = pass[p].pod
        BY <1>0, <3>2, Zenon DEF Passes
      <3> QED BY <3>3
    <2> QED BY <2>1, <2>2
  <1>7. CASE RecordResult(p)
    <2>1. CASE Return(p, TRUE)
      BY <1>1, <2>1
    <2>2. CASE ~Return(p, TRUE)
      <3>1. pass' = [pass EXCEPT ![p].at = "label", ![p].ops = op']
        BY <1>7, <2>2, Zenon DEF RecordResult
      <3>2. pass'[p] = [pass[p] EXCEPT !.at = "label", !.ops = op']
        BY <1>0, <3>1, Zenon
      <3>3. pass'[p].pod = pass[p].pod
        BY <1>0, <3>2, Zenon DEF Passes
      <3> QED BY <3>3
    <2> QED BY <2>1, <2>2
  <1>8. CASE CacheSync(p) \/ Resync(p)
    BY <1>8 DEF CacheSync, Resync
  <1>9. CASE FailedCall(p)
    BY <1>1, <1>2, <1>9, Zenon DEF FailedCall
  <1>10. CASE Crash(p)
    <2>1. pass'[p] = Idle
      BY <1>0, <1>10 DEF Crash
    <2>2. Idle.pod = 0
      BY Zenon DEF Idle
    <2> QED BY <2>1, <2>2
  <1>11. CASE /\ Stage(p)
              /\ ~(Reconcile(p) \/ SuspendGetJob(p) \/ SuspendListPods(p) \/ CopyInput(p)
                   \/ FetchJobStatus(p) \/ RecordResult(p))
    BY <1>1, <1>2, <1>11, Zenon
       DEF Stage, Annotate, SuspendJob, Check, FailOps,
           UpdateOperationOwnReferenceForCluster, UpdateClusterOpsStatusDigest,
           UpdateStatusHasModified, RecordCopy, RejectArgs,
           CreateEntryPointShellConfigMap, RecordEntryPoint,
           UpdateOwnReferenceToClusterOps, GetJob, CreateJob, RecordJob,
           UpdateStatusForLabel, UpdateAndReturn
  <1> QED BY <1>3, <1>4, <1>5, <1>6, <1>7, <1>8, <1>9, <1>10, <1>11 DEF Replica

LEMMA NextPodBecomes ==
    ASSUME Inv, [Next]_vars, NEW q \in Replicas
    PROVE  PodBecomes(pass[q], pass'[q])
  <1>1. CASE pass'[q] = pass[q]
    BY <1>1 DEF PodBecomes
  <1>2. CASE pass' # pass /\ pass'[q] # pass[q]
    <2>1. Replica(q)
      <3>1. ~(Users \/ Kubernetes) /\ vars' # vars
        BY <1>2, Zenon DEF Users, Kubernetes, CreateOps, EditSpec, DeleteOps, RemoveInput,
           DeleteCluster, DeleteJob, StartPod, LosePod, EndJob, CollectOps,
           CollectJob, CollectEntrypoint, worker, vars
      <3>2. PICK p \in Replicas : Replica(p)
        BY <3>1 DEF Next
      <3> QED BY <1>2, <3>2, OthersStay
    <2>2. CASE SuspendListPods(q)
      BY <2>2, SuspendListPodsBecomes
    <2>3. CASE ~SuspendListPods(q)
      <3>1. pass'[q].pod \in {pass[q].pod, 0}
        BY <2>1, <2>3, PodStays
      <3>2. pass'[q].at # "suspend"
        <4>1. CASE pass[q].at # "suspendList"
          <5>1. Becomes(pass[q], cache[q], op', pass'[q])
            BY NextBecomes
          <5> QED BY <1>2, <4>1, <5>1, IdleFields, NextStageIs DEF Becomes, Follows
        <4>2. CASE pass[q].at = "suspendList"
          <5>1. ~Stage(q)
            BY <2>3, <4>2, Zenon
               DEF Stage, At, Reconcile, SuspendGetJob, Annotate, SuspendJob, Check, FailOps,
                   UpdateOperationOwnReferenceForCluster, UpdateClusterOpsStatusDigest,
                   UpdateStatusHasModified, CopyInput, RecordCopy, RejectArgs,
                   CreateEntryPointShellConfigMap, RecordEntryPoint,
                   UpdateOwnReferenceToClusterOps, GetJob, CreateJob, RecordJob,
                   FetchJobStatus, RecordResult, UpdateStatusForLabel
          <5>2. pass \in [Replicas -> Passes]
            BY SnapshotFacts
          <5>3. CASE Crash(q)
            BY <5>2, <5>3, Zenon DEF Crash, Idle
          <5>4. CASE FailedCall(q)
            <6>1. Goto(q, "check") \/ \E again : Return(q, again)
              BY <4>2, <5>4, Zenon DEF FailedCall, At
            <6>2. pass' = [pass EXCEPT ![q].at = "check"] \/ pass'[q] = Idle
              BY <5>2, <6>1 DEF Goto, Return
            <6>3. pass'[q] = [pass[q] EXCEPT !.at = "check"] \/ pass'[q] = Idle
              BY <5>2, <6>2, Zenon
            <6>4. [pass[q] EXCEPT !.at = "check"].at = "check"
              BY <5>2, Zenon DEF Passes
            <6> QED BY <6>3, <6>4, IdleFields
          <5>5. ~CacheSync(q) /\ ~Resync(q)
            BY <1>2 DEF CacheSync, Resync
          <5> QED BY <2>1, <5>1, <5>3, <5>4, <5>5 DEF Replica
        <4> QED BY <4>1, <4>2
      <3> QED BY <3>1, <3>2 DEF PodBecomes
    <2> QED BY <2>2, <2>3
  <1> QED BY <1>1, <1>2

\* What a step makes of the pods: the job loses some, gets the next one, or is
\* suspended by a pass that is about to do so.
LEMMA NextPods ==
    ASSUME Inv, [Next]_vars
    PROVE  \/ /\ job'.pods \subseteq job.pods /\ lastPod' = lastPod
              /\ \/ job'.suspend => job.suspend
                 \/ \E p \in Replicas : At(p, "suspend")
           \/ /\ lastPod' = lastPod + 1 /\ job'.pods = job.pods \cup {lastPod + 1}
              /\ job'.suspend = job.suspend
  <1> DEFINE Fewer == job'.pods \subseteq job.pods /\ (job'.suspend => job.suspend)
                      /\ lastPod' = lastPod
  <1>0. job \in Jobs
    BY DEF Inv, TypeOK
  <1>1. CASE UNCHANGED <<job, lastPod>>
    BY <1>1
  <1>2. ASSUME NEW p \in Replicas, SuspendJob(p)
        PROVE  job'.pods \subseteq job.pods /\ lastPod' = lastPod /\ At(p, "suspend")
    BY <1>0, <1>2, Zenon DEF SuspendJob, Jobs
  <1>3. ASSUME NEW p \in Replicas, CreateJob(p) PROVE Fewer
    <2>1. CASE job' = job
      BY <1>3, <2>1 DEF CreateJob
    <2>2. CASE job' # job
      <3>1. PICK i : job' = NewJob(i, Snapshot(p))
        BY <1>3, <2>2, Zenon DEF CreateJob
      <3>2. job'.pods = {} /\ job'.suspend = FALSE
        BY <3>1 DEF NewJob
      <3> QED BY <1>3, <3>2 DEF CreateJob
    <2> QED BY <2>1, <2>2
  <1>4. CASE DeleteJob \/ CollectJob
    <2>1. NoJob.pods = {} /\ NoJob.suspend = FALSE
      BY Zenon DEF NoJob, NewJob
    <2> QED BY <1>4, <2>1 DEF DeleteJob, CollectJob
  <1>5. CASE LosePod \/ \E c \in Conditions \ {"none"} : EndJob(c)
    <2>1. \/ \E k \in job.pods : job' = [job EXCEPT !.pods = job.pods \ {k}]
          \/ \E c : job' = [job EXCEPT !.cond = c, !.pods = {}]
      BY <1>5, Zenon DEF LosePod, EndJob
    <2>2. job'.suspend = job.suspend /\ job'.pods \subseteq job.pods
      BY <1>0, <2>1, Zenon DEF Jobs
    <2> QED BY <1>5, <2>2 DEF LosePod, EndJob
  <1>6. CASE StartPod
    <2>1. job' = [job EXCEPT !.pods = job.pods \cup {lastPod + 1}] /\ lastPod' = lastPod + 1
      BY <1>6 DEF StartPod
    <2> QED BY <1>0, <2>1, Zenon DEF Jobs
  <1>7. ASSUME NEW p \in Replicas, Replica(p), ~SuspendJob(p), ~CreateJob(p)
        PROVE  UNCHANGED <<job, lastPod>>
    BY <1>7, Zenon
       DEF Replica, Stage, CacheSync, Resync, FailedCall, Crash, Reconcile, SuspendGetJob,
           SuspendListPods, Annotate, Check, FailOps,
           UpdateOperationOwnReferenceForCluster, UpdateClusterOpsStatusDigest,
           UpdateStatusHasModified, CopyInput, RecordCopy, RejectArgs,
           CreateEntryPointShellConfigMap, RecordEntryPoint,
           UpdateOwnReferenceToClusterOps, GetJob, RecordJob,
           FetchJobStatus, RecordResult, UpdateStatusForLabel, UpdateAndReturn, workload
  <1>8. CASE Users
    BY <1>1, <1>4, <1>8, Zenon
       DEF Users, CreateOps, EditSpec, DeleteOps, RemoveInput, DeleteCluster, DeleteJob, workload
  <1>9. CASE Kubernetes
    BY <1>1, <1>4, <1>5, <1>6, <1>9, Zenon DEF Kubernetes, CollectOps, CollectEntrypoint, workload
  <1>10. CASE UNCHANGED vars
    BY <1>1, <1>10 DEF vars, workload
  <1> QED BY <1>1, <1>2, <1>3, <1>7, <1>8, <1>9, <1>10, Zenon DEF Next

LEMMA NextPodsInv == ASSUME Inv, PodsInv, [Next]_vars PROVE PodsInv'
  <1>0. /\ lastPod \in Nat /\ job.pods \subseteq Nat /\ op.actor \in Nat
        /\ \A p \in Replicas : /\ cache[p].actor \in Nat /\ pass[p].ops.actor \in Nat
                               /\ pass[p].pod \in Nat
    <2>1. \A p \in Replicas : /\ cache[p] \in Operations /\ pass[p].ops \in Operations
                              /\ pass[p].pod \in Nat
      BY SnapshotType DEF Inv, TypeOK, Snapshot
    <2> QED BY <2>1 DEF Inv, TypeOK, Operations, Jobs
  <1>1. lastPod' \in {lastPod, lastPod + 1} /\ lastPod' \in Nat
    BY <1>0, NextPods
  <1>2. op'.actor <= lastPod'
    <2>1. op'.actor = op.actor \/ op'.actor = 0 \/ \E p \in Replicas : op'.actor = pass[p].pod
      <3>1. Changes
        BY NextChanges
      <3>2. CASE \E p \in Replicas : Writes(pass[p], op, op')
        BY <3>2 DEF Writes
      <3>3. CASE \E s : op' = NewOperation(lastUid + 1, s)
        <4>1. PICK s : op' = NewOperation(lastUid + 1, s)
          BY <3>3
        <4> QED BY <4>1, Zenon DEF NewOperation
      <3>4. CASE \E s : op' = [op EXCEPT !.spec = s, !.rv = op.rv + 1]
        BY <3>4, Zenon DEF Inv, TypeOK, Operations
      <3>5. CASE op' = op \/ op' = NoOperation
        BY <3>5, NoOperationFields
      <3> QED BY <3>1, <3>2, <3>3, <3>4, <3>5 DEF Changes
    <2> QED BY <1>0, <1>1, <2>1 DEF PodsInv
  <1>3. ASSUME NEW p \in Replicas
        PROVE  /\ cache'[p].actor <= lastPod'
               /\ pass'[p].ops.actor <= lastPod'
    <2>1. /\ cache'[p] \in {cache[p], op'}
          /\ pass'[p].ops \in {pass[p].ops, cache[p], NoOperation, op'}
      <3>1. CASE Next
        BY <3>1, NextStep DEF StepOK, WorkerOK
      <3>2. CASE UNCHANGED vars
        BY <3>2 DEF vars, worker
      <3> QED BY <3>1, <3>2
    <2>2. cache[p].actor <= lastPod' /\ pass[p].ops.actor <= lastPod'
      BY <1>0, <1>1 DEF PodsInv
    <2>3. NoOperation.actor = 0 /\ 0 <= lastPod'
      <3>1. 0 <= lastPod'
        BY <1>1
      <3> QED BY <3>1, NoOperationFields
    <2> QED BY <1>2, <2>1, <2>2, <2>3
  <1>4. ASSUME NEW p \in Replicas
        PROVE  /\ pass'[p].pod <= lastPod'
               /\ pass'[p].at = "suspend" => /\ pass'[p].ops.actor # 0 /\ pass'[p].pod # 0
                                             /\ pass'[p].ops.actor # pass'[p].pod
    <2>1. PodBecomes(pass[p], pass'[p])
      BY NextPodBecomes
    <2>2. \A k \in job.pods : k # 0 /\ k <= lastPod'
      BY <1>0, <1>1 DEF PodsInv
    <2>3. pass'[p].pod <= lastPod'
      BY <1>0, <1>1, <2>1, <2>2 DEF PodBecomes, PodsInv
    <2>4. ASSUME pass'[p].at = "suspend"
          PROVE  /\ pass'[p].ops.actor # 0 /\ pass'[p].pod # 0
                 /\ pass'[p].ops.actor # pass'[p].pod
      <3>1. CASE pass'[p] = pass[p]
        BY <2>4, <3>1 DEF PodsInv, At
      <3>2. CASE pass'[p] # pass[p]
        BY <2>1, <2>2, <2>4, <3>2 DEF PodBecomes
      <3> QED BY <3>1, <3>2
    <2> QED BY <2>3, <2>4
  <1>5. job'.pods \subseteq 1..lastPod'
    BY <1>0, NextPods DEF PodsInv
  <1>6. job'.suspend => lastPod' > 1
    <2>1. ASSUME NEW p \in Replicas, At(p, "suspend") PROVE lastPod > 1
      BY <1>0, <2>1 DEF PodsInv
    <2>2. job.suspend => lastPod > 1
      BY DEF PodsInv
    <2>3. (job'.suspend => job.suspend) \/ \E p \in Replicas : At(p, "suspend")
      BY NextPods
    <2>4. ASSUME lastPod > 1 PROVE lastPod' > 1
      BY <1>0, <1>1, <2>4
    <2> QED BY <2>1, <2>2, <2>3, <2>4
  <1> QED BY <1>2, <1>3, <1>4, <1>5, <1>6 DEF PodsInv, At

LEMMA InitPodsInv == Init => PodsInv
  <1> SUFFICES ASSUME Init PROVE PodsInv
    OBVIOUS
  <1>1. job.pods = {} /\ job.suspend = FALSE
    BY Zenon DEF Init, NoJob, NewJob
  <1>2. \A p \in Replicas : pass[p].at = "idle" /\ pass[p].ops = NoOperation /\ pass[p].pod = 0
    BY Zenon DEF Init, Idle
  <1>3. lastPod = 0 /\ op = NoOperation /\ \A p \in Replicas : cache[p] = NoOperation
    BY DEF Init
  <1>4. op.actor = 0 /\ \A p \in Replicas : cache[p].actor = 0 /\ pass[p].ops.actor = 0
    BY <1>2, <1>3, NoOperationFields
  <1> QED BY <1>1, <1>2, <1>3, <1>4 DEF PodsInv, At

\* A job is only suspended when it has had a second pod, whatever the replicas have
\* remembered of its first one.
THEOREM SecondPodSuspends == Spec => []OnlyASecondPodSuspends
  <1>1. Inv /\ PodsInv /\ [Next]_vars => PodsInv'
    BY NextPodsInv
  <1>2. PodsInv => OnlyASecondPodSuspends
    BY DEF PodsInv, OnlyASecondPodSuspends
  <1> QED BY <1>1, <1>2, InitPodsInv, Invariant, PTL DEF Spec

-----------------------------------------------------------------------------
(* Nothing drops out of sight, for any number of replicas. *)

\* No stage is a fault, and none touches the queue of another replica.
LEMMA FaultsStay ==
    ASSUME NEW p \in Replicas, Stage(p)
    PROVE  faults' = faults
  BY Zenon
     DEF Stage, Reconcile, SuspendGetJob, SuspendListPods, Annotate, SuspendJob, Check,
         FailOps, UpdateOperationOwnReferenceForCluster, UpdateClusterOpsStatusDigest,
         UpdateStatusHasModified, CopyInput, RecordCopy, RejectArgs,
         CreateEntryPointShellConfigMap, RecordEntryPoint, UpdateOwnReferenceToClusterOps,
         GetJob, CreateJob, RecordJob, FetchJobStatus, RecordResult, UpdateStatusForLabel,
         UpdateAndReturn

LEMMA OtherQueues ==
    ASSUME Inv, NEW p \in Replicas, Replica(p), NEW q \in Replicas, q # p
    PROVE  queued'[q] = queued[q] /\ cache'[q] = cache[q]
  <1>0. queued \in [Replicas -> BOOLEAN] /\ cache \in [Replicas -> Operations]
    BY DEF Inv, TypeOK
  <1>1. CASE \E again : Return(p, again)
    BY <1>0, <1>1, Zenon DEF Return
  <1>2. CASE UNCHANGED <<cache, queued>>
    BY <1>2
  <1>3. CASE Reconcile(p)
    BY <1>0, <1>3 DEF Reconcile
  <1>4. CASE Stage(p) /\ ~Reconcile(p)
    BY <1>1, <1>2, <1>4, Zenon
       DEF Stage, SuspendGetJob, SuspendListPods, Annotate, SuspendJob, Check,
           FailOps, UpdateOperationOwnReferenceForCluster, UpdateClusterOpsStatusDigest,
           UpdateStatusHasModified, CopyInput, RecordCopy, RejectArgs,
           CreateEntryPointShellConfigMap, RecordEntryPoint, UpdateOwnReferenceToClusterOps,
           GetJob, CreateJob, RecordJob, FetchJobStatus, RecordResult, UpdateStatusForLabel,
           UpdateAndReturn, Goto
  <1>5. CASE CacheSync(p) \/ Resync(p) \/ Crash(p)
    BY <1>0, <1>5, Zenon DEF CacheSync, Resync, Crash
  <1>6. CASE FailedCall(p)
    BY <1>1, <1>2, <1>6, Zenon DEF FailedCall, Goto
  <1> QED BY <1>3, <1>4, <1>5, <1>6 DEF Replica

\* A pass that stops without being queued again has found nothing to do, has
\* failed its operation or has labelled it.
LEMMA StageQueue ==
    ASSUME Inv, NEW p \in Replicas, Stage(p)
    PROVE  /\ cache' = cache
           /\ queued[p] => queued'[p] \/ Reconcile(p)
           /\ \/ queued'[p] \/ Reconcile(p) \/ FailOps(p) \/ UpdateStatusForLabel(p)
              \/ pass'[p].at # "idle"
           /\ faults' = faults
  <1>0. pass \in [Replicas -> Passes] /\ queued \in [Replicas -> BOOLEAN]
    BY SnapshotFacts DEF Inv, TypeOK
  <1>1. CASE Return(p, TRUE)
    <2>1. cache' = cache /\ queued'[p]
      BY <1>0, <1>1, Zenon DEF Return
    <2> QED BY <2>1, FaultsStay
  <1>2. CASE \E s : Goto(p, s) /\ s # "idle"
    <2>1. PICK s : s # "idle" /\ pass' = [pass EXCEPT ![p].at = s] /\ cache' = cache
                   /\ queued' = queued
      BY <1>2 DEF Goto
    <2>2. pass'[p] = [pass[p] EXCEPT !.at = s]
      BY <1>0, <2>1, Zenon
    <2>3. pass'[p].at = s
      BY <1>0, <2>2, Zenon DEF Passes
    <2> QED BY <2>1, <2>3, FaultsStay
  <1>3. CASE Reconcile(p)
    BY <1>3, FaultsStay DEF Reconcile
  <1>4. CASE FailOps(p) \/ UpdateStatusForLabel(p)
    <2>1. cache' = cache /\ (queued[p] => queued'[p])
      BY <1>0, <1>4, Zenon DEF FailOps, UpdateStatusForLabel, Return
    <2> QED BY <1>4, <2>1, FaultsStay
  <1>5. CASE SuspendGetJob(p) \/ SuspendListPods(p) \/ CopyInput(p) \/ FetchJobStatus(p)
             \/ RecordResult(p)
    <2>1. CASE ~Return(p, TRUE)
      <3>1. UNCHANGED <<cache, queued>>
        BY <1>5, <2>1, Zenon
           DEF SuspendGetJob, SuspendListPods, CopyInput, FetchJobStatus, RecordResult, Goto
      <3>2. pass'[p].at # "idle"
        <4>1. CASE SuspendListPods(p)
          <5>1. CASE Goto(p, "check")
            <6>1. pass'[p] = [pass[p] EXCEPT !.at = "check"]
              BY <1>0, <5>1, Zenon DEF Goto
            <6>2. pass'[p].at = "check"
              BY <1>0, <6>1, Zenon DEF Passes
            <6> QED BY <6>2
          <5>2. CASE ~Goto(p, "check")
            <6> DEFINE s(k) == IF Snapshot(p).actor = 0 THEN "annotate"
                               ELSE IF Snapshot(p).actor # k THEN "suspend" ELSE "check"
            <6>1. \A k : s(k) # "idle"
              OBVIOUS
            <6>2. PICK k : pass' = [pass EXCEPT ![p].pod = k, ![p].at = s(k)]
              BY <4>1, <5>2, Zenon DEF SuspendListPods
            <6> HIDE DEF s
            <6>3. pass'[p] = [pass[p] EXCEPT !.pod = k, !.at = s(k)]
              BY <1>0, <6>2, Zenon
            <6>4. pass'[p].at = s(k)
              BY <1>0, <6>3, Zenon DEF Passes
            <6> QED BY <6>1, <6>4
          <5> QED BY <5>1, <5>2
        <4>2. CASE ~SuspendListPods(p)
          <5>1. \E v : \/ pass' = [pass EXCEPT ![p].at = "check"]
                       \/ pass' = [pass EXCEPT ![p].at = "suspendList", ![p].job = v]
                       \/ pass' = [pass EXCEPT ![p].copy = v, ![p].at = "copyRecord"]
                       \/ pass' = [pass EXCEPT ![p].result = v, ![p].at = "result"]
                       \/ pass' = [pass EXCEPT ![p].at = "label", ![p].ops = v]
            BY <1>5, <2>1, <4>2, Zenon DEF SuspendGetJob, CopyInput, FetchJobStatus, RecordResult
          <5>2. PICK v : \/ pass'[p] = [pass[p] EXCEPT !.at = "check"]
                         \/ pass'[p] = [pass[p] EXCEPT !.at = "suspendList", !.job = v]
                         \/ pass'[p] = [pass[p] EXCEPT !.copy = v, !.at = "copyRecord"]
                         \/ pass'[p] = [pass[p] EXCEPT !.result = v, !.at = "result"]
                         \/ pass'[p] = [pass[p] EXCEPT !.at = "label", !.ops = v]
            BY <1>0, <5>1, Zenon
          <5>3. pass'[p].at \in {"check", "suspendList", "copyRecord", "result", "label"}
            BY <1>0, <5>2, Zenon DEF Passes
          <5> QED BY <5>3
        <4> QED BY <4>1, <4>2
      <3> QED BY <3>1, <3>2, FaultsStay
    <2> QED BY <1>1, <2>1
  <1>6. CASE Annotate(p) \/ SuspendJob(p) \/ UpdateOperationOwnReferenceForCluster(p)
             \/ UpdateClusterOpsStatusDigest(p) \/ UpdateStatusHasModified(p) \/ RecordCopy(p)
             \/ RejectArgs(p) \/ RecordEntryPoint(p) \/ RecordJob(p)
    BY <1>1, <1>6, Zenon
       DEF Annotate, SuspendJob, UpdateOperationOwnReferenceForCluster,
           UpdateClusterOpsStatusDigest, UpdateStatusHasModified, RecordCopy, RejectArgs,
           RecordEntryPoint, RecordJob, UpdateAndReturn
  <1>7. CASE Check(p) \/ CreateEntryPointShellConfigMap(p) \/ UpdateOwnReferenceToClusterOps(p)
             \/ GetJob(p) \/ CreateJob(p)
    <2>1. Return(p, TRUE) \/ \E s : Goto(p, s) /\ s # "idle"
      <3>1. NextStage(Snapshot(p)) # "idle"
        BY NextStageIs
      <3>2. \/ Return(p, TRUE) \/ Goto(p, "fail") \/ Goto(p, NextStage(Snapshot(p)))
            \/ Goto(p, "entryRecord") \/ Goto(p, "jobRecord") \/ Goto(p, "jobCreate")
            \/ Goto(p, IF Snapshot(p).jobRef THEN "fetch" ELSE "job")
        BY <1>7, Zenon DEF Check, CreateEntryPointShellConfigMap, GetJob, CreateJob,
                           UpdateOwnReferenceToClusterOps
      <3>3. PICK s \in {"fail", NextStage(Snapshot(p)), "entryRecord", "jobRecord",
                        "jobCreate", "fetch", "job"} : Return(p, TRUE) \/ Goto(p, s)
        BY <3>2
      <3> QED BY <3>1, <3>3
    <2> QED BY <1>1, <1>2, <2>1
  <1> QED BY <1>3, <1>4, <1>5, <1>6, <1>7 DEF Stage

\* A version that is stored anew is in no cache.
LEMMA NewVersionNotCached ==
    ASSUME Inv, [Next]_vars, op' # op, op'.uid # 0, NEW p \in Replicas
    PROVE  cache[p] # op'
  <1>0. IsVersion(cache[p], op, lastUid) /\ cache[p] \in Operations /\ op \in Operations
        /\ lastUid \in Nat
    BY DEF Inv, TypeOK, VersionsOK
  <1>1. cache[p].uid <= lastUid /\ (cache[p].uid = op.uid /\ op.uid # 0 => cache[p].rv <= op.rv)
    BY <1>0 DEF IsVersion
  <1>2. cache[p].uid \in Nat /\ cache[p].rv \in Nat /\ op.rv \in Nat
    BY <1>0 DEF Operations
  <1>3. Moves(op, lastUid, op', lastUid')
    <2>1. CASE Next
      BY <2>1, NextStep DEF StepOK
    <2> QED BY <2>1 DEF vars
  <1>4. CASE op.uid # 0 /\ op'.uid = op.uid /\ op'.rv = op.rv + 1
    BY <1>1, <1>2, <1>4
  <1>5. CASE op'.uid = lastUid + 1
    BY <1>0, <1>1, <1>2, <1>5
  <1> QED BY <1>3, <1>4, <1>5, NoOperationFields DEF Moves

\* While nothing fails, nothing has failed.
LEMMA FaultsGrow ==
    ASSUME Inv, [Next]_vars, faults' = 0
    PROVE  /\ faults = 0
           /\ \A p \in Replicas : ~FailedCall(p) /\ ~Crash(p)
  <1>0. faults \in Nat
    BY DEF Inv, TypeOK
  <1>1. \A p \in Replicas : ~FailedCall(p) /\ ~Crash(p)
    <2>1. faults + 1 # 0
      BY <1>0
    <2> QED BY <2>1 DEF FailedCall, Crash
  <1>2. faults' = faults
    BY <1>1, FaultsStay, Zenon
       DEF Next, Replica, CacheSync, Resync, Users, CreateOps, EditSpec, DeleteOps,
           RemoveInput, DeleteCluster, DeleteJob, Kubernetes, StartPod, LosePod, EndJob,
           CollectOps, CollectJob, CollectEntrypoint, vars
  <1> QED BY <1>1, <1>2

\* A pass that starts is not idle.
LEMMA StartsAwake ==
    ASSUME Inv, NEW p \in Replicas, Reconcile(p), cache[p].uid # 0, ~Finished(cache[p])
    PROVE  pass'[p].at # "idle"
  <1> DEFINE s == IF cache[p].jobRef THEN "suspendGet" ELSE "check"
  <1>0. pass \in [Replicas -> Passes] /\ s # "idle"
    BY SnapshotFacts
  <1>1. pass' = [pass EXCEPT ![p] = [Idle EXCEPT !.at = s, !.ops = cache[p]]]
    BY DEF Reconcile
  <1> HIDE DEF s
  <1>2. pass'[p] = [Idle EXCEPT !.at = s, !.ops = cache[p]]
    BY <1>0, <1>1, Zenon
  <1>3. pass'[p].at = s
    BY <1>2, IdleType, Zenon DEF Passes
  <1> QED BY <1>0, <1>3

\* What the replica of the step keeps in hand.
LEMMA StageInHand ==
    ASSUME Inv, [Next]_vars, NEW p \in Replicas, Stage(p), InHand(p), LifecycleInv
    PROVE  InHand(p)'
  <1> DEFINE x == pass[p]
             y == pass'[p]
  <1>0. Becomes(x, cache[p], op', y) /\ x.ops = Snapshot(p) /\ x.ops \in Operations
        /\ op \in Operations /\ cache' = cache
    BY NextBecomes, SnapshotFacts, StageQueue DEF Snapshot
  <1>q. queued[p] => queued'[p] \/ Reconcile(p)
    BY StageQueue
  <1>1. y.at = "label" => Finished(y.ops)
    <2>1. CASE y = x
      BY <2>1 DEF InHand, At, Snapshot
    <2>2. CASE x.at = "result" /\ y.at = "label" /\ y.ops = op' /\ Writes(x, x.ops, op')
      <3>1. op'.status = x.result /\ x.result \in {"Succeeded", "Failed"}
        BY <2>2 DEF Writes, LifecycleInv, At
      <3> QED BY <2>2, <3>1 DEF Finished
    <2>3. CASE y.at # "label"
      BY <2>3
    <2> HIDE DEF x, y
    <2> QED BY <1>0, <2>1, <2>2, <2>3, IdleFields, NextStageIs DEF Becomes, Follows
  <1>2. ASSUME y.at \notin {"idle", "label"} PROVE queued'[p] \/ cache'[p] = y.ops
    <2>1. CASE x.at = "idle" /\ y.ops = cache[p]
      BY <1>0, <2>1
    <2>2. CASE x.at \notin {"idle", "label"} /\ y.ops = x.ops
      <3>1. queued[p] \/ cache[p] = x.ops
        BY <2>2 DEF InHand, Snapshot
      <3>2. ~Reconcile(p)
        BY <2>2 DEF Reconcile, At
      <3> QED BY <1>0, <1>q, <2>2, <3>1, <3>2
    <2>3. CASE y = x
      BY <1>2, <2>2, <2>3
    <2> HIDE DEF x, y
    <2>4. Follows(x.at, y.at, x.ops) => x.at \notin {"idle", "label"}
      BY DEF Follows
    <2> QED BY <1>0, <1>2, <2>1, <2>2, <2>3, <2>4, IdleFields DEF Becomes
  <1>3. ASSUME op'.uid # 0, ~Finished(op')
        PROVE  queued'[p] \/ y.at # "idle" \/ cache'[p] # op'
    <2>1. CASE Reconcile(p) /\ y.at = "idle"
      <3>1. op' = op /\ (cache[p].uid = 0 \/ Finished(cache[p]))
        <4>1. op' = op
          BY <2>1 DEF Reconcile
        <4> QED BY <2>1, <4>1, StartsAwake
      <3> QED BY <1>0, <1>3, <3>1
    <2>2. CASE FailOps(p)
      <3>1. CASE Fresh(p)
        <4>1. op' = [[x.ops EXCEPT !.status = "Failed"] EXCEPT !.rv =
                       [x.ops EXCEPT !.status = "Failed"].rv + 1]
          BY <1>0, <2>2, <3>1, Zenon DEF FailOps, Update
        <4>2. op'.status = "Failed"
          BY <1>0, <4>1, Zenon DEF Operations
        <4> QED BY <1>3, <4>2 DEF Finished
      <3>2. CASE ~Fresh(p)
        <4>1. op' = op
          BY <2>2, <3>2 DEF FailOps, Update
        <4>2. queued[p] \/ cache[p] = x.ops
          BY <2>2 DEF FailOps, InHand, At, Snapshot
        <4>3. ~Reconcile(p)
          BY <2>2 DEF FailOps, Reconcile, At
        <4> QED BY <1>0, <1>3, <1>q, <3>2, <4>1, <4>2, <4>3 DEF Fresh
      <3> QED BY <3>1, <3>2
    <2>3. CASE UpdateStatusForLabel(p)
      <3>1. CASE Fresh(p)
        <4>1. op' = [[x.ops EXCEPT !.completed = TRUE] EXCEPT !.rv =
                       [x.ops EXCEPT !.completed = TRUE].rv + 1]
          BY <1>0, <2>3, <3>1, Zenon DEF UpdateStatusForLabel, Update
        <4>2. op'.status = x.ops.status
          BY <1>0, <4>1, Zenon DEF Operations
        <4>3. Finished(x.ops)
          BY <2>3 DEF UpdateStatusForLabel, InHand, At, Snapshot
        <4> QED BY <1>3, <4>2, <4>3 DEF Finished
      <3>2. CASE ~Fresh(p)
        <4>1. queued' = [queued EXCEPT ![p] = queued[p] \/ TRUE]
          BY <2>3, <3>2, Zenon DEF UpdateStatusForLabel, Return
        <4>2. queued'[p]
          BY <4>1, Zenon DEF Inv, TypeOK
        <4> QED BY <4>2
      <3> QED BY <3>1, <3>2
    <2> QED BY <2>1, <2>2, <2>3, StageQueue
  <1> QED BY <1>1, <1>2, <1>3 DEF InHand, At, Snapshot

LEMMA NextPendingInv ==
    ASSUME Inv, LifecycleInv, PendingInv, [Next]_vars
    PROVE  PendingInv'
  <1> SUFFICES ASSUME faults' = 0, NEW p \in Replicas PROVE InHand(p)'
    BY DEF PendingInv
  <1>1. InHand(p)
    BY FaultsGrow DEF PendingInv
  <1>2. CASE Stage(p)
    BY <1>1, <1>2, StageInHand
  <1>3. CASE CacheSync(p) \/ Resync(p)
    <2>1. queued'[p] /\ pass' = pass
      BY <1>3, Zenon DEF CacheSync, Resync, Inv, TypeOK
    <2> QED BY <1>1, <2>1 DEF InHand, At, Snapshot
  <1>4. CASE ~Replica(p)
    <2>1. queued'[p] = queued[p] /\ cache'[p] = cache[p] /\ pass'[p] = pass[p]
      <3>1. ASSUME NEW q \in Replicas, Replica(q)
            PROVE  queued'[p] = queued[p] /\ cache'[p] = cache[p] /\ pass'[p] = pass[p]
        BY <1>4, <3>1, OtherQueues, OthersStay
      <3>2. CASE Users \/ Kubernetes \/ UNCHANGED vars
        BY <3>2, Zenon DEF Users, Kubernetes, CreateOps, EditSpec, DeleteOps, RemoveInput,
           DeleteCluster, DeleteJob, StartPod, LosePod, EndJob, CollectOps,
           CollectJob, CollectEntrypoint, worker, vars
      <3> QED BY <3>1, <3>2 DEF Next
    <2>2. op' = op \/ op'.uid = 0 \/ cache[p] # op'
      BY NewVersionNotCached
    <2> QED BY <1>1, <2>1, <2>2 DEF InHand, At, Snapshot
  <1> QED BY <1>2, <1>3, <1>4, FaultsGrow DEF Replica

LEMMA InitPendingInv == Init => PendingInv
  <1> SUFFICES ASSUME Init, NEW p \in Replicas PROVE InHand(p)
    BY DEF PendingInv
  <1>1. op.uid = 0
    BY NoOperationFields DEF Init
  <1>2. pass[p].at = "idle"
    BY IdleFields DEF Init
  <1> QED BY <1>1, <1>2 DEF InHand, At

\* While no call fails and no process stops, an unfinished operation is queued, worked on
\* or about to be reported, by every replica.
THEOREM NothingIsForgotten == Spec => []AlwaysPending
  <1>1. Inv /\ LifecycleInv /\ PendingInv /\ [Next]_vars => PendingInv'
    BY NextPendingInv
  <1>2. PendingInv => AlwaysPending
    BY ReplicasAssumption DEF PendingInv, InHand, AlwaysPending
  <1> QED BY <1>1, <1>2, InitPendingInv, Invariant, RunningIsRecorded, PTL DEF Spec

-----------------------------------------------------------------------------
(* With one replica. *)

\* What a step does to the entrypoint.
LEMMA NextEntry ==
    ASSUME Inv, [Next]_vars, NEW r, Replicas = {r}
    PROVE  \/ entry' = entry
           \/ /\ At(r, "entry") /\ op' = op /\ pass'[r].at = "entryRecord"
              /\ entry' = NewEntrypoint(Snapshot(r))
           \/ /\ entry'.uid = entry.uid /\ entry.owners \subseteq entry'.owners
           \/ /\ entry'.uid = 0 /\ entry.uid # 0 /\ op.uid \notin entry.owners /\ op' = op
              /\ pass' = pass
  <1>0. pass \in [Replicas -> Passes] /\ entry \in Entrypoints
    BY DEF Inv, TypeOK
  <1>1. CASE CreateEntryPointShellConfigMap(r)
    <2>1. pass' = [pass EXCEPT ![r].at = "entryRecord"]
      BY <1>1 DEF CreateEntryPointShellConfigMap, Goto
    <2>2. pass'[r] = [pass[r] EXCEPT !.at = "entryRecord"]
      BY <1>0, <2>1, Zenon
    <2>3. pass'[r].at = "entryRecord"
      BY <1>0, <2>2, Zenon DEF Passes
    <2> QED BY <1>1, <2>3 DEF CreateEntryPointShellConfigMap
  <1>2. CASE UpdateOwnReferenceToClusterOps(r)
    <2>1. \/ entry' = entry
          \/ entry' = [entry EXCEPT !.owners = entry.owners \cup {Snapshot(r).uid}]
      BY <1>2, Zenon DEF UpdateOwnReferenceToClusterOps
    <2>2. \/ entry' = entry
          \/ /\ entry'.uid = entry.uid
             /\ entry'.owners = entry.owners \cup {Snapshot(r).uid}
      BY <1>0, <2>1, Zenon DEF Entrypoints
    <2> QED BY <2>2
  <1>3. CASE CollectEntrypoint
    <2>1. NoEntrypoint.uid = 0
      BY Zenon DEF NoEntrypoint
    <2> QED BY <1>3, <2>1 DEF CollectEntrypoint, worker
  <1>4. CASE /\ Replica(r)
             /\ ~CreateEntryPointShellConfigMap(r) /\ ~UpdateOwnReferenceToClusterOps(r)
    BY <1>4, Zenon
       DEF Replica, Stage, CacheSync, Resync, FailedCall, Crash, Reconcile, SuspendGetJob,
           SuspendListPods, Annotate, SuspendJob, Check, FailOps,
           UpdateOperationOwnReferenceForCluster, UpdateClusterOpsStatusDigest,
           UpdateStatusHasModified, CopyInput, RecordCopy, RejectArgs, RecordEntryPoint,
           GetJob, CreateJob, RecordJob, FetchJobStatus, RecordResult,
           UpdateStatusForLabel, UpdateAndReturn, workload
  <1>5. CASE Users \/ UNCHANGED vars
    BY <1>5, Zenon
       DEF Users, CreateOps, EditSpec, DeleteOps, RemoveInput, DeleteCluster, DeleteJob,
           workload, vars
  <1>6. CASE Kubernetes /\ ~CollectEntrypoint
    BY <1>6, Zenon
       DEF Kubernetes, StartPod, LosePod, EndJob, CollectOps, CollectJob, workload
  <1> QED BY <1>1, <1>2, <1>3, <1>4, <1>5, <1>6 DEF Next

\* What a step does to the job.
LEMMA NextJob ==
    ASSUME Inv, [Next]_vars, NEW r, Replicas = {r}
    PROVE  \/ job'.uid = 0
           \/ /\ job'.uid = job.uid /\ job'.spec = job.spec
              /\ job'.cond = job.cond \/ job'.cond # "none"
           \/ /\ At(r, "jobCreate") /\ job.uid = 0 /\ op' = op
              /\ job'.uid = Snapshot(r).uid /\ job'.spec = Snapshot(r).spec
  <1>0. job \in Jobs
    BY DEF Inv, TypeOK
  <1>1. CASE job' = job
    BY <1>1
  <1>2. CASE CreateJob(r)
    <2>1. CASE job' # job
      <3>1. PICK i : job' = NewJob(i, Snapshot(r))
        BY <1>2, <2>1, Zenon DEF CreateJob
      <3>2. job'.uid = Snapshot(r).uid /\ job'.spec = Snapshot(r).spec
        BY <3>1, Zenon DEF NewJob
      <3> QED BY <1>2, <2>1, <3>2 DEF CreateJob
    <2> QED BY <1>1, <2>1
  <1>3. CASE DeleteJob \/ CollectJob
    <2>1. NoJob.uid = 0
      BY NoOperationFields, Zenon DEF NoJob, NewJob
    <2> QED BY <1>3, <2>1 DEF DeleteJob, CollectJob
  <1>4. CASE StartPod \/ LosePod \/ (\E c \in Conditions \ {"none"} : EndJob(c)) \/ SuspendJob(r)
    <2>1. \/ job' = job
          \/ \E v : job' = [job EXCEPT !.pods = v]
          \/ job' = [job EXCEPT !.suspend = TRUE]
          \/ \E c \in Conditions \ {"none"} : job' = [job EXCEPT !.cond = c, !.pods = {}]
      BY <1>4, Zenon DEF StartPod, LosePod, EndJob, SuspendJob
    <2>2. CASE \E v : job' = [job EXCEPT !.pods = v]
      BY <1>0, <2>2, Zenon DEF Jobs
    <2>3. CASE job' = [job EXCEPT !.suspend = TRUE]
      BY <1>0, <2>3, Zenon DEF Jobs
    <2>4. CASE \E c \in Conditions \ {"none"} : job' = [job EXCEPT !.cond = c, !.pods = {}]
      <3>1. PICK c \in Conditions \ {"none"} : job' = [job EXCEPT !.cond = c, !.pods = {}]
        BY <2>4
      <3>2. job'.uid = job.uid /\ job'.spec = job.spec /\ job'.cond = c
        BY <1>0, <3>1, Zenon DEF Jobs
      <3> QED BY <3>2
    <2> QED BY <1>1, <2>1, <2>2, <2>3, <2>4
  <1>5. CASE Replica(r) /\ ~CreateJob(r) /\ ~SuspendJob(r)
    BY <1>1, <1>5, Zenon
       DEF Replica, Stage, CacheSync, Resync, FailedCall, Crash, Reconcile, SuspendGetJob,
           SuspendListPods, Annotate, Check, FailOps,
           UpdateOperationOwnReferenceForCluster, UpdateClusterOpsStatusDigest,
           UpdateStatusHasModified, CopyInput, RecordCopy, RejectArgs,
           CreateEntryPointShellConfigMap, RecordEntryPoint,
           UpdateOwnReferenceToClusterOps, GetJob, RecordJob,
           FetchJobStatus, RecordResult, UpdateStatusForLabel, UpdateAndReturn, workload
  <1>6. CASE (Users /\ ~DeleteJob) \/ UNCHANGED vars
    BY <1>1, <1>6, Zenon
       DEF Users, CreateOps, EditSpec, DeleteOps, RemoveInput, DeleteCluster, workload, vars
  <1>7. CASE CollectOps \/ CollectEntrypoint
    BY <1>1, <1>7, Zenon DEF CollectOps, CollectEntrypoint, workload
  <1> QED BY <1>2, <1>3, <1>4, <1>5, <1>6, <1>7, Zenon DEF Next, Kubernetes

\* What a step does to the object, the cache and the snapshot.
LEMMA NextVersions ==
    ASSUME Inv, [Next]_vars, NEW r, Replicas = {r}
    PROVE  /\ Becomes(pass[r], cache[r], op', pass'[r])
           /\ Changes
           /\ cache'[r] \in {cache[r], op'}
           /\ pass'[r].ops \in {pass[r].ops, cache[r], NoOperation, op'}
           /\ op'.uid # 0 => \/ op'.uid = op.uid
                             \/ /\ op'.uid # cache[r].uid /\ op'.uid # pass[r].ops.uid
                                /\ op'.entry = FALSE /\ op'.status = ""
           /\ op'.uid # 0 /\ pass'[r].ops.uid = op'.uid => pass'[r].ops.rv <= op'.rv
  <1>0. r \in Replicas
    OBVIOUS
  <1>1. Becomes(pass[r], cache[r], op', pass'[r]) /\ Changes
    BY <1>0, NextBecomes, NextChanges
  <1>2. WorkerOK
    <2>1. CASE Next
      BY <2>1, NextStep DEF StepOK
    <2>2. CASE UNCHANGED vars
      BY <2>2, QuietOK DEF vars, worker
    <2> QED BY <2>1, <2>2
  <1>3. op'.uid # 0 => \/ op'.uid = op.uid
                       \/ /\ op'.uid # cache[r].uid /\ op'.uid # pass[r].ops.uid
                          /\ op'.entry = FALSE /\ op'.status = ""
    <2>1. CASE op' = op \/ op' = NoOperation
      BY <2>1, NoOperationFields
    <2>2. CASE \E p \in Replicas : Writes(pass[p], op, op')
      BY <2>2 DEF Writes
    <2>3. CASE \E s \in Specs : op' = [op EXCEPT !.spec = s, !.rv = op.rv + 1]
      BY <2>3, Zenon DEF Inv, TypeOK, Operations
    <2>4. CASE \E s \in Specs : op' = NewOperation(lastUid + 1, s)
      <3>1. PICK s \in Specs : op' = NewOperation(lastUid + 1, s)
        BY <2>4
      <3>2. op'.uid = lastUid + 1 /\ op'.entry = FALSE /\ op'.status = ""
        BY <3>1, Zenon DEF NewOperation
      <3>3. /\ cache[r].uid <= lastUid /\ pass[r].ops.uid <= lastUid
            /\ cache[r] \in Operations /\ pass[r].ops \in Operations
        BY <1>0, SnapshotFacts, Zenon DEF Inv, TypeOK, VersionsOK, IsVersion, Snapshot
      <3>4. lastUid \in Nat /\ cache[r].uid \in Nat /\ pass[r].ops.uid \in Nat
        BY <3>3 DEF Inv, TypeOK, Operations
      <3>5. op'.uid # cache[r].uid /\ op'.uid # pass[r].ops.uid
        <4>1. lastUid + 1 # cache[r].uid /\ lastUid + 1 # pass[r].ops.uid
          BY <3>3, <3>4
        <4> QED BY <3>2, <4>1, Zenon
      <3> QED BY <3>2, <3>5
    <2> QED BY <1>1, <2>1, <2>2, <2>3, <2>4 DEF Changes
  <1>4. Inv'
    BY NextInv
  <1>5. op'.uid # 0 /\ pass'[r].ops.uid = op'.uid => pass'[r].ops.rv <= op'.rv
    BY <1>0, <1>4, Zenon DEF Inv, VersionsOK, IsVersion
  <1> QED BY <1>0, <1>1, <1>2, <1>3, <1>5 DEF WorkerOK

\* A finished operation was finished before, or is finished by this step.
LEMMA NextFinishes ==
    ASSUME Inv, LifecycleInv, [Next]_vars, NEW r, Replicas = {r},
           op'.uid # 0, Finished(op'), ~Finished(op)
    PROVE  /\ Fresh(r) /\ Snapshot(r) = op /\ op'.uid = op.uid
           /\ pass[r].at \in {"fail", "entry", "result"}
  <1>1. Changes
    BY NextChanges
  <1>2. CASE op' = op
    BY <1>2
  <1>3. CASE \E p \in Replicas : Fresh(p) /\ Snapshot(p) = op /\ Writes(pass[p], op, op')
    BY <1>3 DEF Writes, Finished
  <1>4. CASE \E s \in Specs : op' = [op EXCEPT !.spec = s, !.rv = op.rv + 1]
    <2>1. op'.status = op.status
      BY <1>4, Zenon DEF Inv, TypeOK, Operations
    <2> QED BY <2>1 DEF Finished
  <1>5. CASE \E s \in Specs : op' = NewOperation(lastUid + 1, s)
    <2>1. PICK s \in Specs : op' = NewOperation(lastUid + 1, s)
      BY <1>5
    <2>2. op'.status = ""
      BY <2>1, Zenon DEF NewOperation
    <2> QED BY <2>2 DEF Finished
  <1>6. CASE op' = NoOperation
    BY <1>6, NoOperationFields
  <1> QED BY <1>1, <1>2, <1>3, <1>4, <1>5, <1>6 DEF Changes

\* The entrypoint that a pass is about to record is the one it has just written.
LEMMA RecordsOwnEntry ==
    ASSUME Inv, [Next]_vars, NEW r, Replicas = {r}, At(r, "entry"),
           pass'[r].at = "entryRecord"
    PROVE  entry'.uid = Snapshot(r).uid
  <1>0. r \in Replicas /\ pass \in [Replicas -> Passes]
    BY SnapshotFacts
  <1>1. CASE CreateEntryPointShellConfigMap(r)
    BY <1>1 DEF CreateEntryPointShellConfigMap, NewEntrypoint
  <1>2. CASE RejectArgs(r) \/ FailedCall(r) \/ Crash(r)
    <2>1. pass' = [pass EXCEPT ![r] = Idle]
      BY <1>2, Zenon DEF RejectArgs, UpdateAndReturn, FailedCall, Return, Crash, At
    <2> QED BY <1>0, <2>1, IdleFields
  <1>3. CASE pass' = pass
    BY <1>3 DEF At
  <1>4. Stage(r) => CreateEntryPointShellConfigMap(r) \/ RejectArgs(r)
    BY Zenon
       DEF Stage, At, Reconcile, SuspendGetJob, SuspendListPods, Annotate, SuspendJob, Check,
           FailOps, UpdateOperationOwnReferenceForCluster, UpdateClusterOpsStatusDigest,
           UpdateStatusHasModified, CopyInput, RecordCopy, RecordEntryPoint,
           UpdateOwnReferenceToClusterOps, GetJob, CreateJob, RecordJob,
           FetchJobStatus, RecordResult, UpdateStatusForLabel
  <1>5. CacheSync(r) \/ Resync(r) => pass' = pass
    BY DEF CacheSync, Resync
  <1>6. Users \/ Kubernetes \/ UNCHANGED vars => pass' = pass
    BY Zenon DEF Users, Kubernetes, CreateOps, EditSpec, DeleteOps, RemoveInput,
       DeleteCluster, DeleteJob, StartPod, LosePod, EndJob, CollectOps,
       CollectJob, CollectEntrypoint, worker, vars
  <1> QED BY <1>1, <1>2, <1>3, <1>4, <1>5, <1>6 DEF Next, Replica

LEMMA NextAloneInv ==
    ASSUME Inv, LifecycleInv, [Next]_vars, NEW r, Replicas = {r}, AloneInv(r)
    PROVE  AloneInv(r)'
  <1> DEFINE x == pass[r]
             y == pass'[r]
             c == cache[r]
             k == cache'[r]
  <1>0. /\ Becomes(x, c, op', y)
        /\ k \in {c, op'}
        /\ y.ops \in {x.ops, c, NoOperation, op'}
        /\ op'.uid # 0 => \/ op'.uid = op.uid
                          \/ /\ op'.uid # c.uid /\ op'.uid # x.ops.uid
                             /\ op'.entry = FALSE /\ op'.status = ""
        /\ op'.uid # 0 /\ y.ops.uid = op'.uid => y.ops.rv <= op'.rv
        /\ NoOperation.uid = 0 /\ Idle.at = "idle"
    BY NextVersions, NoOperationFields, IdleFields
  <1>s. StageOK(x.at, x.ops) /\ IsVersion(c, op, lastUid) /\ x.ops = Snapshot(r)
        /\ c \in Operations /\ op \in Operations
    BY SnapshotFacts DEF Snapshot, Inv, TypeOK, VersionsOK
  <1>a. /\ entry.uid # 0 => entry.uid \in entry.owners
        /\ x.at # "idle" /\ op.uid # 0 /\ x.ops.uid = op.uid =>
             c.uid = op.uid /\ (x.at = "label" \/ x.ops.rv <= c.rv)
        /\ op.entry => /\ entry.uid = op.uid /\ c.uid = op.uid
                       /\ x.at = "idle" \/ x.ops.uid = op.uid
        /\ x.at = "entryRecord" /\ op.uid # 0 /\ x.ops.uid = op.uid => entry.uid = op.uid
        /\ x.at = "fail" => ~IsValidImageName(x.ops) \/ ~BackedUp(x.ops)
        /\ x.at = "entry" => ~x.ops.entry
        /\ x.at \in {"references", "job", "jobCreate"} => IsValidImageName(x.ops)
        /\ x.at \in {"job", "jobCreate"} => ~x.ops.jobRef
        /\ op.uid # 0 /\ Finished(op) =>
             /\ c.uid = op.uid => Stuck(c)
             /\ x.ops.uid = op.uid => Stuck(x.ops)
        /\ job.uid # 0 => job.spec.image \notin BadImages
        /\ x.at = "result" /\ job.uid # 0 /\ job.uid = x.ops.uid => job.cond # "none"
    BY DEF AloneInv, At, Snapshot
  <1>b. \/ op'.entry => op.entry /\ op'.uid = op.uid
        \/ /\ x.at = "entryRecord" /\ x.ops = op /\ op.uid # 0
           /\ op'.uid = op.uid
    <2>1. Changes
      BY NextChanges
    <2>2. CASE \E p \in Replicas : Fresh(p) /\ Snapshot(p) = op /\ Writes(pass[p], op, op')
      BY <2>2 DEF Writes, Fresh, Snapshot
    <2>3. CASE \E s \in Specs : op' = [op EXCEPT !.spec = s, !.rv = op.rv + 1]
      BY <1>s, <2>3, Zenon DEF Operations
    <2>4. CASE \E s \in Specs : op' = NewOperation(lastUid + 1, s)
      <3>1. op'.entry = FALSE
        <4>1. PICK s \in Specs : op' = NewOperation(lastUid + 1, s)
          BY <2>4
        <4> QED BY <4>1, Zenon DEF NewOperation
      <3> QED BY <3>1
    <2> QED BY <2>1, <2>2, <2>3, <2>4, NoOperationFields DEF Changes
  <1>e. \/ entry' = entry
        \/ /\ x.at = "entry" /\ op' = op /\ y.at = "entryRecord"
           /\ entry'.uid = x.ops.uid /\ entry'.owners = {x.ops.uid}
        \/ /\ entry'.uid = entry.uid /\ entry.owners \subseteq entry'.owners
        \/ /\ entry'.uid = 0 /\ entry.uid # 0 /\ op.uid \notin entry.owners /\ op' = op
           /\ y = x
    BY NextEntry DEF At, Snapshot, NewEntrypoint
  <1>j. \/ job'.uid = 0
        \/ /\ job'.uid = job.uid /\ job'.spec = job.spec
           /\ job'.cond = job.cond \/ job'.cond # "none"
        \/ /\ x.at = "jobCreate" /\ job.uid = 0 /\ op' = op
           /\ job'.uid = x.ops.uid /\ job'.spec = x.ops.spec
    BY NextJob DEF At, Snapshot
  <1>f. op'.uid # 0 /\ Finished(op') /\ ~Finished(op) =>
          x.ops = op /\ op.uid # 0 /\ op'.uid = op.uid /\ x.at \in {"fail", "entry", "result"}
    BY NextFinishes DEF Snapshot, Fresh
  <1>r. x.at \in {"fetch", "result"} => x.ops.jobRef
    BY DEF LifecycleInv, At
  <1>c. ASSUME y.at = "entryRecord", x.at = "entry"
        PROVE  entry'.uid = x.ops.uid
    BY <1>c, RecordsOwnEntry DEF Snapshot, At
  <1>w. Writes(x, x.ops, op') => op'.uid = x.ops.uid
    BY DEF Writes
  <1> HIDE DEF x, y, c, k
  <1>1. entry'.uid # 0 => entry'.uid \in entry'.owners
    BY <1>a, <1>e
  <1>2. y.at # "idle" /\ op'.uid # 0 /\ y.ops.uid = op'.uid =>
          k.uid = op'.uid /\ (y.at = "label" \/ y.ops.rv <= k.rv)
    <2> SUFFICES ASSUME y.at # "idle", op'.uid # 0, y.ops.uid = op'.uid
                 PROVE  k.uid = op'.uid /\ (y.at = "label" \/ y.ops.rv <= k.rv)
      OBVIOUS
    <2>1. CASE y.ops = x.ops /\ x.at # "idle" /\ (x.at = "label" => y.at = "label")
      BY <1>0, <1>a, <2>1
    <2>2. CASE y.ops = c
      <3>1. c.rv <= c.rv
        BY <1>s DEF Operations
      <3> QED BY <1>0, <2>2, <3>1
    <2>3. CASE y.at = "label" /\ y.ops = op' /\ x.at = "result" /\ Writes(x, x.ops, op')
      BY <1>0, <1>a, <1>w, <2>3
    <2>4. Follows(x.at, y.at, x.ops) => x.at \notin {"idle", "label"}
      BY DEF Follows
    <2> QED BY <1>0, <2>1, <2>2, <2>3, <2>4 DEF Becomes
  <1>3. op'.entry => /\ entry'.uid = op'.uid /\ k.uid = op'.uid
                     /\ y.at = "idle" \/ y.ops.uid = op'.uid
    <2> SUFFICES ASSUME op'.entry
                 PROVE  /\ entry'.uid = op'.uid /\ k.uid = op'.uid
                        /\ y.at = "idle" \/ y.ops.uid = op'.uid
      OBVIOUS
    <2>1. /\ op'.uid = op.uid
          /\ op.entry \/ (x.at = "entryRecord" /\ x.ops = op /\ op.uid # 0)
      BY <1>b
    <2>2. c.uid = op.uid /\ (x.at = "idle" \/ x.ops.uid = op.uid) /\ entry.uid = op.uid
      BY <1>a, <2>1
    <2>3. k.uid = op'.uid
      BY <1>0, <2>1, <2>2
    <2>4. y.at = "idle" \/ y.ops.uid = op'.uid
      <3>1. Follows(x.at, y.at, x.ops) => x.at # "idle"
        BY DEF Follows
      <3> QED BY <1>0, <2>1, <2>2, <3>1 DEF Becomes
    <2>5. entry'.uid = op'.uid
      BY <1>a, <1>e, <2>1, <2>2
    <2> QED BY <2>3, <2>4, <2>5
  <1>4. y.at = "entryRecord" /\ op'.uid # 0 /\ y.ops.uid = op'.uid => entry'.uid = op'.uid
    <2> SUFFICES ASSUME y.at = "entryRecord", op'.uid # 0, y.ops.uid = op'.uid
                 PROVE  entry'.uid = op'.uid
      OBVIOUS
    <2>1. CASE y = x
      <3>1. op'.uid = op.uid /\ entry.uid = op.uid
        BY <1>0, <1>a, <2>1
      <3> QED BY <1>a, <1>e, <2>1, <3>1
    <2>2. CASE x.at = "entry" /\ y.ops = x.ops
      BY <1>c, <2>2
    <2>3. Follows(x.at, y.at, x.ops) => x.at = "entry"
      BY NextStageIs DEF Follows
    <2> QED BY <1>0, <2>1, <2>2, <2>3 DEF Becomes
  <1>5. /\ y.at = "fail" => ~IsValidImageName(y.ops) \/ ~BackedUp(y.ops)
        /\ y.at = "entry" => ~y.ops.entry
        /\ y.at \in {"references", "job", "jobCreate"} => IsValidImageName(y.ops)
        /\ y.at \in {"job", "jobCreate"} => ~y.ops.jobRef
    <2>1. CASE y = x
      BY <1>a, <2>1
    <2>2. CASE y.ops = x.ops /\ Follows(x.at, y.at, x.ops)
      <3>1. x.at = "check" /\ y.at = NextStage(x.ops) /\ IsValidImageName(x.ops) =>
              \/ y.at \in {"own", "digest", "modified", "copy", "references"}
              \/ y.at = "entry" /\ ~x.ops.entry
        BY DEF NextStage
      <3> QED BY <1>a, <2>2, <3>1 DEF Follows
    <2>3. CASE y.at \in {"idle", "suspendGet", "check", "result", "label"}
      BY <2>3
    <2> QED BY <1>0, <2>1, <2>2, <2>3 DEF Becomes
  <1>6. op'.uid # 0 /\ Finished(op') => /\ k.uid = op'.uid => Stuck(k)
                                        /\ y.ops.uid = op'.uid => Stuck(y.ops)
    <2> SUFFICES ASSUME op'.uid # 0, Finished(op')
                 PROVE  /\ k.uid = op'.uid => Stuck(k)
                        /\ y.ops.uid = op'.uid => Stuck(y.ops)
      OBVIOUS
    <2>1. Stuck(op') /\ op'.uid = op.uid
      BY <1>0 DEF Stuck, Finished
    <2>2. /\ c.uid = op'.uid => Stuck(c)
          /\ x.ops.uid = op'.uid => Stuck(x.ops)
      <3>1. CASE Finished(op)
        BY <1>a, <2>1, <3>1
      <3>2. CASE ~Finished(op)
        <4>1. x.ops = op /\ x.at \in {"fail", "entry", "result"} /\ op.uid # 0
          BY <1>f, <3>2
        <4>2. Stuck(op)
          BY <1>a, <1>r, <4>1 DEF Stuck
        <4>3. c.uid = op.uid /\ op.rv <= c.rv
          BY <1>a, <4>1
        <4>4. c.rv <= op.rv /\ (c.rv = op.rv => c = op)
          BY <1>s, <4>1, <4>3 DEF IsVersion
        <4>5. c.rv \in Nat /\ op.rv \in Nat
          BY <1>s DEF Operations
        <4> QED BY <4>1, <4>2, <4>3, <4>4, <4>5
      <3> QED BY <3>1, <3>2
    <2> QED BY <1>0, <2>1, <2>2
  <1>7. job'.uid # 0 => job'.spec.image \notin BadImages
    BY <1>a, <1>j DEF IsValidImageName
  <1>8. y.at = "result" /\ job'.uid # 0 /\ job'.uid = y.ops.uid => job'.cond # "none"
    <2>1. CASE y = x
      BY <1>a, <1>j, <2>1
    <2>2. CASE x.at = "fetch" /\ JobStatus # "Running"
      BY <1>j, <2>2 DEF JobStatus
    <2>3. Follows(x.at, y.at, x.ops) => y.at # "result"
      BY NextStageIs DEF Follows
    <2> QED BY <1>0, <2>1, <2>2, <2>3 DEF Becomes
  <1> QED
    BY <1>1, <1>2, <1>3, <1>4, <1>5, <1>6, <1>7, <1>8 DEF AloneInv, At, Snapshot, x, y, c, k

LEMMA InitAloneInv == ASSUME NEW r, Replicas = {r} PROVE Init => AloneInv(r)
  <1> SUFFICES ASSUME Init PROVE AloneInv(r)
    OBVIOUS
  <1>1. entry.uid = 0 /\ job.uid = 0
    BY NoOperationFields, Zenon DEF Init, NoEntrypoint, NoJob, NewJob
  <1>2. op.uid = 0 /\ op.entry = FALSE
    BY NoOperationFields DEF Init
  <1>3. pass[r].at = "idle"
    BY IdleFields DEF Init
  <1> QED BY <1>1, <1>2, <1>3 DEF AloneInv, At

\* With one replica: the invariant behind the three theorems below.  An operation that
\* was finished by this replica leaves it nothing to start from, because its cache is
\* never behind the snapshot that it works on.
THEOREM AloneInvariant == ASSUME NEW r, Replicas = {r} PROVE Spec => []AloneInv(r)
  <1>1. Init => AloneInv(r)
    BY InitAloneInv
  <1>2. Inv /\ LifecycleInv /\ AloneInv(r) /\ [Next]_vars => AloneInv(r)'
    BY NextAloneInv
  <1> QED BY <1>1, <1>2, Invariant, RunningIsRecorded, PTL DEF Spec

\* With one replica the entrypoint that an operation has recorded is its own.
THEOREM EntrypointIsOwn == ASSUME NEW r, Replicas = {r} PROVE Spec => []OwnEntrypoint
  <1>1. AloneInv(r) => OwnEntrypoint
    BY DEF AloneInv, OwnEntrypoint
  <1>2. Spec => []AloneInv(r)
    BY AloneInvariant
  <1> QED BY <1>1, <1>2, PTL

\* With one replica no job is started for an operation that has finished.
THEOREM NothingAfterFinish == ASSUME NEW r, Replicas = {r} PROVE Spec => NoJobAfterFinish
  <1>1. ASSUME Inv, AloneInv(r), [Next]_vars
        PROVE  [job.uid = 0 /\ job'.uid # 0 /\ job'.uid = op.uid => ~Finished(op)]_vars
    <2> SUFFICES ASSUME job.uid = 0, job'.uid # 0, job'.uid = op.uid, Finished(op)
                 PROVE  FALSE
      OBVIOUS
    <2>1. At(r, "jobCreate") /\ job'.uid = Snapshot(r).uid
      BY <1>1, NextJob
    <2>2. Stuck(Snapshot(r)) /\ IsValidImageName(Snapshot(r)) /\ ~Snapshot(r).jobRef
      BY <1>1, <2>1 DEF AloneInv, At
    <2>3. StageOK("jobCreate", Snapshot(r))
      BY <1>1, <2>1, SnapshotFacts DEF At
    <2> QED BY <2>2, <2>3 DEF Stuck, StageOK
  <1>2. Spec => []AloneInv(r)
    BY AloneInvariant
  <1> QED BY <1>1, <1>2, Invariant, PTL DEF Spec, NoJobAfterFinish

\* With one replica an operation finishes after its job, unless its spec has changed.
THEOREM EndsAfterJob == ASSUME NEW r, Replicas = {r} PROVE Spec => FinishedMeansJobEnded
  <1>1. ASSUME Inv, LifecycleInv, AloneInv(r), [Next]_vars
        PROVE  [SameOps /\ ~Finished(op) /\ Finished(op') /\ job.uid = op.uid
                  /\ job.spec = op.spec => job.cond # "none"]_vars
    <2> SUFFICES ASSUME op'.uid = op.uid, op.uid # 0, ~Finished(op), Finished(op'),
                        job.uid = op.uid, job.spec = op.spec
                 PROVE  job.cond # "none"
      BY DEF SameOps
    <2>1. Snapshot(r) = op /\ pass[r].at \in {"fail", "entry", "result"}
      BY <1>1, NextFinishes
    <2>2. BackedUp(job) /\ job.refs = op.refs /\ op.entry
      BY <1>1 DEF Inv, JobMountsBackups, Mounts
    <2>3. BackedUp(op)
      BY <2>2 DEF BackedUp
    <2>4. ~At(r, "fail")
      BY <1>1, <2>1, <2>3 DEF AloneInv, IsValidImageName
    <2>5. ~At(r, "entry")
      BY <1>1, <2>1, <2>2 DEF AloneInv
    <2>6. At(r, "result")
      BY <2>1, <2>4, <2>5 DEF At
    <2> QED BY <1>1, <2>1, <2>6 DEF AloneInv
  <1>2. Spec => []AloneInv(r)
    BY AloneInvariant
  <1> QED BY <1>1, <1>2, Invariant, RunningIsRecorded, PTL DEF Spec, FinishedMeansJobEnded
=============================================================================
