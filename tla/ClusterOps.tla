----------------------------- MODULE ClusterOps -----------------------------
(***************************************************************************)
(* The clusterops controller of the kubean operator: what happens to the   *)
(* ClusterOperation objects that bear one name, over their successive      *)
(* incarnations (an object that is deleted and created again gets a new    *)
(* uid).                                                                    *)
(*                                                                         *)
(* Every operator replica runs Reconcile passes against the API server.  A *)
(* pass starts from the replica's informer cache, which may be stale, and  *)
(* keeps that snapshot in memory; every other read it makes (the job, its  *)
(* pods, the Cluster, the ConfigMaps and Secrets) goes to the API server,  *)
(* and each of its API calls is a step of its own, so everything else      *)
(* interleaves with it.  Every update of the ClusterOperation carries the  *)
(* snapshot's resourceVersion and is refused when the object has changed.  *)
(*                                                                         *)
(* Time is abstracted: RequeueAfter puts the name back in the work queue   *)
(* at once, and a resync may put it there at any time.                     *)
(***************************************************************************)
EXTENDS Naturals, FiniteSets

CONSTANTS
    Replicas,       \* the operator processes that believe they are the leader
    Actions,        \* values of spec.action
    ExtraArgs,      \* values of spec.extraArgs
    Images,         \* values of spec.image
    BadActions,     \* actions entrypoint.SprayRunPart answers with an ArgsError
    Unsourced,      \* actions with actionSource configmap and no actionSourceRef
    BadImages,      \* images that IsValidImageName refuses
    HasSSH,         \* whether the Cluster has an sshAuthRef
    Copies,         \* the names a copied ConfigMap or Secret can get (numbers)
    JobIds,         \* the uids a Job can get (numbers)
    None,           \* no value
    MaxUid,         \* bound: incarnations of the name
    MaxEdits,       \* bound: edits of the spec, removals of inputs or of the job
    MaxFaults,      \* bound: failed API calls and operator crashes
    MaxPods         \* bound: pods the job controller starts

Specs == [action: Actions, extraArgs: ExtraArgs, image: Images]
Salts == [action: Actions, image: Images]

\* The inputs that a ClusterOperation backs up from its Cluster.
DataKinds == {"hosts", "vars"} \cup (IF HasSSH THEN {"ssh"} ELSE {})

ASSUME ReplicasAssumption == Replicas # {}
ASSUME SpecsAssumption == /\ Actions # {} /\ ExtraArgs # {} /\ Images # {}
                          /\ BadActions \subseteq Actions
                          /\ Unsourced \subseteq Actions
                          /\ BadImages \subseteq Images
ASSUME HasSSHAssumption == HasSSH \in BOOLEAN
ASSUME NamesAssumption == /\ Copies \subseteq Nat /\ JobIds \subseteq Nat \ {0}
                          /\ None \notin Copies /\ None \notin Salts
ASSUME BoundsAssumption == /\ MaxUid \in Nat /\ MaxEdits \in Nat
                           /\ MaxFaults \in Nat /\ MaxPods \in Nat

Statuses == {"", "Running", "Succeeded", "Failed"}
Conditions == {"none", "Complete", "Failed", "Suspended"}

\* A ClusterOperation as the API server stores it.  uid 0 is no object; the
\* copies, the entrypoint and the job are references to other objects.
Operations ==
    [uid: Nat, rv: Nat, created: Specs, spec: Specs,
     owned: BOOLEAN,                          \* ownerReference to the Cluster
     named: BOOLEAN, completed: BOOLEAN,      \* labels clusterName, hasCompleted
     actor: Nat,                              \* annotation with the actor pod
     refs: [DataKinds -> Copies \cup {None}], \* hostsConfRef, varsConfRef, sshAuthRef
     entry: BOOLEAN,                          \* entrypointSHRef
     digest: Salts \cup {None}, modified: BOOLEAN,
     jobRef: BOOLEAN, status: Statuses]

SomeSpec == CHOOSE s \in Specs : TRUE

NewOperation(u, s) ==
    [uid |-> u, rv |-> 1, created |-> s, spec |-> s, owned |-> FALSE,
     named |-> FALSE, completed |-> FALSE, actor |-> 0,
     refs |-> [d \in DataKinds |-> None], entry |-> FALSE, digest |-> None,
     modified |-> FALSE, jobRef |-> FALSE, status |-> ""]

NoOperation == [NewOperation(0, SomeSpec) EXCEPT !.rv = 0]

\* The Job object with this name: its own uid, the incarnation that owns it,
\* what its pod template was made from, its running pods and its condition.
Jobs == [id: JobIds \cup {0}, uid: Nat, spec: Specs,
         refs: [DataKinds -> Copies \cup {None}],
         suspend: BOOLEAN, pods: SUBSET Nat, cond: Conditions]

NewJob(i, m) == [id |-> i, uid |-> m.uid, spec |-> m.spec, refs |-> m.refs,
                 suspend |-> FALSE, pods |-> {}, cond |-> "none"]
NoJob == NewJob(0, NoOperation)

\* The entrypoint ConfigMap with this name: the incarnation that wrote it, the
\* incarnations in its owner references and the spec it renders.
Entrypoints == [uid: Nat, owners: SUBSET Nat, spec: Specs]

\* Mutant: the script is written without an owner reference.
NewEntrypoint_Unowned(m) == [uid |-> m.uid, owners |-> {}, spec |-> m.spec]

NewEntrypoint(m) == [uid |-> m.uid, owners |-> {m.uid}, spec |-> m.spec]
NoEntrypoint == [uid |-> 0, owners |-> {}, spec |-> SomeSpec]

VARIABLES
    op,         \* the ClusterOperation in the API server
    lastUid,    \* the last uid given out
    cache,      \* cache[p]: the informer cache of replica p
    queued,     \* queued[p]: the name is in the work queue of replica p
    pass,       \* pass[p]: the Reconcile pass that replica p runs
    job,        \* the Job in the API server
    lastPod,    \* the last pod started
    entry,      \* the entrypoint ConfigMap in the API server
    source,     \* the Cluster's inputs that exist
    cluster,    \* the Cluster exists
    edits,      \* edits made so far
    faults      \* faults so far

worker == <<cache, queued, pass>>
inputs == <<source, cluster>>
workload == <<job, lastPod, entry>>
vars == <<op, lastUid, worker, workload, inputs, edits, faults>>

Steps == {"idle", "suspendGet", "suspendList", "annotate", "suspend", "check",
          "fail", "own", "digest", "modified", "copy", "copyRecord", "entry",
          "entryRecord", "references", "job", "jobCreate", "jobRecord", "fetch", "result",
          "label"}

\* A pass: its next step, its snapshot of the object and what it has read.
Passes == [at: Steps, ops: Operations, job: JobIds \cup {0}, pod: Nat,
           copy: Copies \cup {None}, result: Statuses]

Idle == [at |-> "idle", ops |-> NoOperation, job |-> 0, pod |-> 0,
         copy |-> None, result |-> ""]

TypeOK ==
    /\ op \in Operations
    /\ lastUid \in Nat
    /\ cache \in [Replicas -> Operations]
    /\ queued \in [Replicas -> BOOLEAN]
    /\ pass \in [Replicas -> Passes]
    /\ job \in Jobs
    /\ lastPod \in Nat
    /\ entry \in Entrypoints
    /\ source \subseteq DataKinds
    /\ cluster \in BOOLEAN
    /\ edits \in Nat
    /\ faults \in Nat

Init ==
    /\ op = NoOperation
    /\ lastUid = 0
    /\ cache = [p \in Replicas |-> NoOperation]
    /\ queued = [p \in Replicas |-> FALSE]
    /\ pass = [p \in Replicas |-> Idle]
    /\ job = NoJob
    /\ lastPod = 0
    /\ entry = NoEntrypoint
    /\ source = DataKinds
    /\ cluster = TRUE
    /\ edits = 0
    /\ faults = 0

-----------------------------------------------------------------------------
(* What the code computes from its snapshot m. *)

Finished(m) == m.status \in {"Succeeded", "Failed"}

\* The salt covers cluster, action, image and hooks, but not extraArgs.
CalSalt(s) == [action |-> s.action, image |-> s.image]

compareDigest(m) == m.digest = CalSalt(m.spec)

\* CheckClusterDataRef: an input that is not backed up yet must exist.
MissingInputs(m) == {d \in DataKinds : m.refs[d] = None} \ source

IsValidImageName(m) == m.spec.image \notin BadImages

\* PreHookRunPart, SprayRunPart and PostHookRunPart know the actions they render.
ValidArgs(m) == m.spec.action \notin BadActions

\* Every custom action has a ConfigMap to inject into the job.
HookCustomAction(m) == m.spec.action \notin Unsourced

BackedUp(m) == \A d \in DataKinds : m.refs[d] # None

\* BackUpDataRef copies one input per pass: hosts first, then vars, then ssh.
NextInput(m) == IF m.refs["hosts"] = None THEN "hosts"
                ELSE IF m.refs["vars"] = None THEN "vars" ELSE "ssh"

\* Mutant: the digest is compared only once the job exists.
NextStage_ComparesLate(m) ==
    IF ~m.owned THEN "own"
    ELSE IF m.digest = None THEN "digest"
    ELSE IF ~BackedUp(m) THEN "copy"
    ELSE IF ~m.entry THEN "entry"
    ELSE IF m.jobRef /\ ~m.modified /\ ~compareDigest(m) THEN "modified"
    ELSE "references"

\* Mutant: the digest is compared only until the job exists.
NextStage_StopsComparing(m) ==
    IF ~m.owned THEN "own"
    ELSE IF m.digest = None THEN "digest"
    ELSE IF ~m.modified /\ ~m.jobRef /\ ~compareDigest(m) THEN "modified"
    ELSE IF ~BackedUp(m) THEN "copy"
    ELSE IF ~m.entry THEN "entry" ELSE "references"

\* Mutant: the hosts are taken for the whole backup.
NextStage_HostsOnly(m) ==
    IF ~m.owned THEN "own"
    ELSE IF m.digest = None THEN "digest"
    ELSE IF ~m.modified /\ ~compareDigest(m) THEN "modified"
    ELSE IF m.refs["hosts"] = None THEN "copy"
    ELSE IF ~m.entry THEN "entry" ELSE "references"

\* The first stage after the checks that has something to do for m.
NextStage(m) ==
    IF ~m.owned THEN "own"
    ELSE IF m.digest = None THEN "digest"
    ELSE IF ~m.modified /\ ~compareDigest(m) THEN "modified"
    ELSE IF ~BackedUp(m) THEN "copy"
    ELSE IF ~m.entry THEN "entry" ELSE "references"

\* Mutant: a job that is gone is taken for one that still runs.
JobStatus_GoneRuns ==
    IF job.id # 0 /\ job.cond \in {"Failed", "Suspended"} THEN "Failed"
    ELSE IF job.cond = "Complete" THEN "Succeeded" ELSE "Running"

\* Mutant: a job without a running pod is taken for one that has failed.
JobStatus_NoPodFails ==
    IF job.cond = "Complete" THEN "Succeeded"
    ELSE IF job.pods = {} THEN "Failed" ELSE "Running"

\* Mutant: the condition is stored as it is.
JobStatus_Raw == IF job.cond = "none" THEN "Running" ELSE job.cond

\* FetchJobConditionStatusAndCompletionTime: a job that is gone has failed.
JobStatus == IF job.uid = 0 \/ job.cond \in {"Failed", "Suspended"} THEN "Failed"
             ELSE IF job.cond = "Complete" THEN "Succeeded" ELSE "Running"

-----------------------------------------------------------------------------
(* The steps of a pass. *)

At(p, s) == pass[p].at = s
Snapshot(p) == pass[p].ops

Goto(p, s) == /\ pass' = [pass EXCEPT ![p].at = s]
              /\ UNCHANGED <<cache, queued>>

\* The pass returns; with again the name is put back in the work queue.
Return(p, again) == /\ pass' = [pass EXCEPT ![p] = Idle]
                    /\ queued' = [queued EXCEPT ![p] = @ \/ again]
                    /\ UNCHANGED cache

\* The snapshot is the stored object: the API server accepts an update.
Fresh(p) == /\ op.uid # 0
            /\ op.uid = Snapshot(p).uid
            /\ op.rv = Snapshot(p).rv

\* c.Client.Update or c.Client.Status().Update of the object.
Update(p, m) == op' = IF Fresh(p) THEN [m EXCEPT !.rv = @ + 1] ELSE op

\* A stage that updates the object and returns, accepted or not, to the queue.
UpdateAndReturn(p, m) == /\ Update(p, m)
                         /\ Return(p, TRUE)
                         /\ UNCHANGED <<lastUid, workload, inputs, edits, faults>>

\* Mutant: a finished object is worked on like any other.
Reconcile_Finished(p) ==
    /\ At(p, "idle") /\ queued[p]
    /\ queued' = [queued EXCEPT ![p] = FALSE]
    /\ pass' = IF cache[p].uid = 0 THEN pass
               ELSE [pass EXCEPT ![p] = [Idle EXCEPT !.at = "check", !.ops = cache[p]]]
    /\ UNCHANGED <<op, lastUid, cache, workload, inputs, edits, faults>>

\* A pass starts from the cache; a missing or finished object needs no work.
Reconcile(p) ==
    /\ At(p, "idle") /\ queued[p]
    /\ queued' = [queued EXCEPT ![p] = FALSE]
    /\ IF cache[p].uid = 0 \/ Finished(cache[p])
       THEN UNCHANGED pass
       ELSE pass' = [pass EXCEPT ![p] = [Idle EXCEPT
                       !.at = IF cache[p].jobRef THEN "suspendGet" ELSE "check",
                       !.ops = cache[p]]]
    /\ UNCHANGED <<op, lastUid, cache, workload, inputs, edits, faults>>

\* TrySuspendPod reads the job: one that is gone, suspended or done is left alone.
SuspendGetJob(p) ==
    /\ At(p, "suspendGet")
    /\ IF job.uid = 0 \/ job.suspend \/ job.cond # "none"
       THEN pass' = [pass EXCEPT ![p].at = "check"]
       ELSE pass' = [pass EXCEPT ![p].at = "suspendList", ![p].job = job.id]
    /\ UNCHANGED <<op, lastUid, cache, queued, workload, inputs, edits, faults>>

\* The pods are selected by the uid of the job that this pass has read.
NoRunningPod(p) == job.id # pass[p].job \/ job.pods = {}

\* Mutant: the first pod is compared with the missing annotation.
SuspendListPods_First(p) ==
    /\ At(p, "suspendList")
    /\ \E k \in job.pods \cup {0} :
         /\ (k = 0) = NoRunningPod(p)
         /\ pass' = [pass EXCEPT ![p].pod = k,
                       ![p].at = IF k \in {0, Snapshot(p).actor} THEN "check" ELSE "suspend"]
    /\ UNCHANGED <<op, lastUid, cache, queued, workload, inputs, edits, faults>>

\* Mutant: an annotated operation is not looked at again.
SuspendListPods_Once(p) ==
    /\ At(p, "suspendList")
    /\ \/ /\ Snapshot(p).actor # 0 \/ NoRunningPod(p)
          /\ Goto(p, "check")
       \/ /\ Snapshot(p).actor = 0 /\ ~NoRunningPod(p)
          /\ \E k \in job.pods :
               pass' = [pass EXCEPT ![p].pod = k, ![p].at = "annotate"]
          /\ UNCHANGED <<cache, queued>>
    /\ UNCHANGED <<op, lastUid, workload, inputs, edits, faults>>

\* GetRunningPodFromJob returns one of the running pods.
SuspendListPods(p) ==
    /\ At(p, "suspendList")
    /\ \/ NoRunningPod(p) /\ Goto(p, "check")
       \/ /\ ~NoRunningPod(p)
          /\ \E k \in job.pods :
               pass' = [pass EXCEPT ![p].pod = k,
                          ![p].at = IF Snapshot(p).actor = 0 THEN "annotate"
                                    ELSE IF Snapshot(p).actor # k THEN "suspend"
                                    ELSE "check"]
          /\ UNCHANGED <<cache, queued>>
    /\ UNCHANGED <<op, lastUid, workload, inputs, edits, faults>>

\* The first running pod becomes the actor of the operation.
Annotate(p) == /\ At(p, "annotate")
               /\ UpdateAndReturn(p, [Snapshot(p) EXCEPT !.actor = pass[p].pod])

\* Another pod than the actor runs: the job is suspended, unless it is no longer
\* the one that this pass has read or has been suspended or has ended since.
SuspendJob(p) ==
    /\ At(p, "suspend")
    /\ job' = IF job.id = pass[p].job /\ ~job.suspend /\ job.cond = "none"
              THEN [job EXCEPT !.suspend = TRUE] ELSE job
    /\ Return(p, TRUE)
    /\ UNCHANGED <<op, lastUid, lastPod, entry, inputs, edits, faults>>

\* GetKuBeanCluster, IsValidImageName and CheckClusterDataRef in turn.
Check(p) ==
    /\ At(p, "check")
    /\ \/ ~cluster /\ Return(p, TRUE)
       \/ /\ cluster
          /\ ~IsValidImageName(Snapshot(p)) \/ MissingInputs(Snapshot(p)) # {}
          /\ Goto(p, "fail")
       \/ /\ cluster
          /\ IsValidImageName(Snapshot(p)) /\ MissingInputs(Snapshot(p)) = {}
          /\ Goto(p, NextStage(Snapshot(p)))
    /\ UNCHANGED <<op, lastUid, workload, inputs, edits, faults>>

\* The failed check is stored; whatever happens the name is not requeued.
FailOps(p) ==
    /\ At(p, "fail")
    /\ Update(p, [Snapshot(p) EXCEPT !.status = "Failed"])
    /\ Return(p, FALSE)
    /\ UNCHANGED <<lastUid, workload, inputs, edits, faults>>

UpdateOperationOwnReferenceForCluster(p) ==
    /\ At(p, "own")
    /\ UpdateAndReturn(p, [Snapshot(p) EXCEPT !.owned = TRUE])

UpdateClusterOpsStatusDigest(p) ==
    /\ At(p, "digest")
    /\ UpdateAndReturn(p, [Snapshot(p) EXCEPT !.digest = CalSalt(Snapshot(p).spec)])

UpdateStatusHasModified(p) ==
    /\ At(p, "modified")
    /\ UpdateAndReturn(p, [Snapshot(p) EXCEPT !.modified = TRUE])

\* The names of copies that something still refers to.  A copy gets a new
\* name; a copy nothing refers to is as good as none, and its name is free.
UsedCopies == UNION {{m.refs[d] : d \in DataKinds} :
                       m \in {op, job} \cup {cache[p] : p \in Replicas}
                             \cup {pass[p].ops : p \in Replicas}}
              \cup {pass[p].copy : p \in Replicas}

Least(S) == {n \in S : \A k \in S : n <= k}

\* CopyConfigMap or CopySecret: read the input, create the copy.
CopyInput(p) ==
    /\ At(p, "copy")
    /\ \/ NextInput(Snapshot(p)) \notin source /\ Return(p, TRUE)
       \/ /\ NextInput(Snapshot(p)) \in source
          /\ \E c \in Least(Copies \ UsedCopies) :
               pass' = [pass EXCEPT ![p].copy = c, ![p].at = "copyRecord"]
          /\ UNCHANGED <<cache, queued>>
    /\ UNCHANGED <<op, lastUid, workload, inputs, edits, faults>>

\* Mutant: a refused update is tried again on the stored object.
RecordCopy_Retries(p) ==
    /\ At(p, "copyRecord")
    /\ op' = IF op.uid = Snapshot(p).uid
             THEN [op EXCEPT !.refs[NextInput(Snapshot(p))] = pass[p].copy,
                             !.named = TRUE, !.rv = @ + 1] ELSE op
    /\ Return(p, TRUE)
    /\ UNCHANGED <<lastUid, workload, inputs, edits, faults>>

RecordCopy(p) ==
    /\ At(p, "copyRecord")
    /\ UpdateAndReturn(p, [Snapshot(p) EXCEPT
                             !.refs[NextInput(Snapshot(p))] = pass[p].copy,
                             !.named = TRUE])

\* An ArgsError of the entrypoint fails the operation.
RejectArgs(p) == /\ At(p, "entry")
                 /\ ~ValidArgs(Snapshot(p))
                 /\ UpdateAndReturn(p, [Snapshot(p) EXCEPT !.status = "Failed"])

\* Mutant: an entrypoint ConfigMap that exists is kept.
CreateEntryPointShellConfigMap_Keeps(p) ==
    /\ At(p, "entry")
    /\ ValidArgs(Snapshot(p))
    /\ entry' = IF entry.uid # 0 THEN entry
                ELSE NewEntrypoint(Snapshot(p))
    /\ Goto(p, "entryRecord")
    /\ UNCHANGED <<op, lastUid, job, lastPod, inputs, edits, faults>>

\* The entrypoint ConfigMap is created, or overwritten if the name exists.
CreateEntryPointShellConfigMap(p) ==
    /\ At(p, "entry")
    /\ ValidArgs(Snapshot(p))
    /\ entry' = NewEntrypoint(Snapshot(p))
    /\ Goto(p, "entryRecord")
    /\ UNCHANGED <<op, lastUid, job, lastPod, inputs, edits, faults>>

RecordEntryPoint(p) ==
    /\ At(p, "entryRecord")
    /\ UpdateAndReturn(p, [Snapshot(p) EXCEPT !.entry = TRUE, !.named = TRUE])

\* The script becomes owned by this incarnation too, whoever wrote it.  The
\* copies that the snapshot refers to are its own already.
UpdateOwnReferenceToClusterOps(p) ==
    /\ At(p, "references")
    /\ entry' = IF entry.uid = 0 THEN entry
                ELSE [entry EXCEPT !.owners = @ \cup {Snapshot(p).uid}]
    /\ Goto(p, IF Snapshot(p).jobRef THEN "fetch" ELSE "job")
    /\ UNCHANGED <<op, lastUid, job, lastPod, inputs, edits, faults>>

\* CreateKubeSprayJob: a job with this name is adopted, whoever owns it.
GetJob(p) ==
    /\ At(p, "job")
    /\ \/ job.uid # 0 /\ Goto(p, "jobRecord")
       \/ /\ job.uid = 0 /\ ~HookCustomAction(Snapshot(p))
          /\ Return(p, TRUE)
       \/ /\ job.uid = 0 /\ HookCustomAction(Snapshot(p))
          /\ Goto(p, "jobCreate")
    /\ UNCHANGED <<op, lastUid, workload, inputs, edits, faults>>

CreateJob(p) ==
    /\ At(p, "jobCreate")
    /\ \/ job.uid # 0 /\ UNCHANGED job /\ Return(p, TRUE)
       \/ /\ job.uid = 0
          /\ \E i \in Least(JobIds \ {pass[q].job : q \in Replicas}) :
               job' = NewJob(i, Snapshot(p))
          /\ Goto(p, "jobRecord")
    /\ UNCHANGED <<op, lastUid, lastPod, entry, inputs, edits, faults>>

RecordJob(p) ==
    /\ At(p, "jobRecord")
    /\ UpdateAndReturn(p, [Snapshot(p) EXCEPT !.jobRef = TRUE, !.status = "Running"])

\* Mutant: a running job is not polled again.
FetchJobStatus_Once(p) ==
    /\ At(p, "fetch")
    /\ \/ JobStatus = "Running" /\ Return(p, FALSE)
       \/ /\ JobStatus # "Running"
          /\ pass' = [pass EXCEPT ![p].result = JobStatus, ![p].at = "result"]
          /\ UNCHANGED <<cache, queued>>
    /\ UNCHANGED <<op, lastUid, workload, inputs, edits, faults>>

\* UpdateStatusLoop asks for the job's status until it is final.
FetchJobStatus(p) ==
    /\ At(p, "fetch")
    /\ \/ JobStatus = "Running" /\ Return(p, TRUE)
       \/ /\ JobStatus # "Running"
          /\ pass' = [pass EXCEPT ![p].result = JobStatus, ![p].at = "result"]
          /\ UNCHANGED <<cache, queued>>
    /\ UNCHANGED <<op, lastUid, workload, inputs, edits, faults>>

\* The final status is stored, and the same pass goes on to the label.
RecordResult(p) ==
    /\ At(p, "result")
    /\ Update(p, [Snapshot(p) EXCEPT !.status = pass[p].result])
    /\ \/ /\ Fresh(p)
          /\ pass' = [pass EXCEPT ![p].at = "label", ![p].ops = op']
          /\ UNCHANGED <<cache, queued>>
       \/ ~Fresh(p) /\ Return(p, TRUE)
    /\ UNCHANGED <<lastUid, workload, inputs, edits, faults>>

UpdateStatusForLabel(p) ==
    /\ At(p, "label")
    /\ Update(p, [Snapshot(p) EXCEPT !.completed = TRUE])
    /\ Return(p, ~Fresh(p))
    /\ UNCHANGED <<lastUid, workload, inputs, edits, faults>>

Stage(p) ==
    \/ Reconcile(p)
    \/ SuspendGetJob(p) \/ SuspendListPods(p) \/ Annotate(p) \/ SuspendJob(p)
    \/ Check(p) \/ FailOps(p)
    \/ UpdateOperationOwnReferenceForCluster(p)
    \/ UpdateClusterOpsStatusDigest(p) \/ UpdateStatusHasModified(p)
    \/ CopyInput(p) \/ RecordCopy(p)
    \/ RejectArgs(p) \/ CreateEntryPointShellConfigMap(p) \/ RecordEntryPoint(p)
    \/ UpdateOwnReferenceToClusterOps(p)
    \/ GetJob(p) \/ CreateJob(p) \/ RecordJob(p)
    \/ FetchJobStatus(p) \/ RecordResult(p) \/ UpdateStatusForLabel(p)

-----------------------------------------------------------------------------
(* The replica around its passes: events, resyncs, failed calls, crashes. *)

\* The informer catches up with the stored object and queues its name.
CacheSync(p) ==
    /\ cache[p] # op
    /\ cache' = [cache EXCEPT ![p] = op]
    /\ queued' = [queued EXCEPT ![p] = TRUE]
    /\ UNCHANGED <<op, lastUid, pass, workload, inputs, edits, faults>>

\* The informer's periodic resync (ten hours by default).
Resync(p) ==
    /\ cache[p].uid # 0 /\ ~queued[p]
    /\ queued' = [queued EXCEPT ![p] = TRUE]
    /\ UNCHANGED <<op, lastUid, cache, pass, workload, inputs, edits, faults>>

\* A call of the pass fails.  TrySuspendPod ignores a failed read; the check
\* of an input takes an error for its existence; a failed check whose status is
\* not stored returns without requeue; everything else returns and requeues.
FailedCall(p) ==
    /\ faults < MaxFaults
    /\ faults' = faults + 1
    /\ \/ pass[p].at \in {"suspendGet", "suspendList"} /\ Goto(p, "check")
       \/ /\ At(p, "check") /\ cluster /\ IsValidImageName(Snapshot(p))
          /\ \E d \in DataKinds : MissingInputs(Snapshot(p)) \subseteq {d}
          /\ Goto(p, NextStage(Snapshot(p)))
       \/ At(p, "fail") /\ Return(p, FALSE)
       \/ /\ pass[p].at \notin {"idle", "suspendGet", "suspendList", "fail"}
          /\ Return(p, TRUE)
    /\ UNCHANGED <<op, lastUid, workload, inputs, edits>>

\* The process stops and starts again: the pass is lost, the cache relisted.
Crash(p) ==
    /\ faults < MaxFaults
    /\ faults' = faults + 1
    /\ pass' = [pass EXCEPT ![p] = Idle]
    /\ cache' = [cache EXCEPT ![p] = op]
    /\ queued' = [queued EXCEPT ![p] = op.uid # 0]
    /\ UNCHANGED <<op, lastUid, workload, inputs, edits>>

-----------------------------------------------------------------------------
(* The users, and the cluster controller's clean-up. *)

CreateOps(s) ==
    /\ op.uid = 0 /\ lastUid < MaxUid
    /\ op' = NewOperation(lastUid + 1, s)
    /\ lastUid' = lastUid + 1
    /\ UNCHANGED <<worker, workload, inputs, edits, faults>>

DeleteOps ==
    /\ op.uid # 0
    /\ op' = NoOperation
    /\ UNCHANGED <<lastUid, worker, workload, inputs, edits, faults>>

Disturb == edits < MaxEdits /\ edits' = edits + 1

EditSpec(s) ==
    /\ op.uid # 0 /\ s # op.spec
    /\ Disturb
    /\ op' = [op EXCEPT !.spec = s, !.rv = @ + 1]
    /\ UNCHANGED <<lastUid, worker, workload, inputs, faults>>

RemoveInput(d) ==
    /\ d \in source
    /\ Disturb
    /\ source' = source \ {d}
    /\ UNCHANGED <<op, lastUid, worker, workload, cluster, faults>>

DeleteCluster ==
    /\ cluster
    /\ Disturb
    /\ cluster' = FALSE
    /\ UNCHANGED <<op, lastUid, worker, workload, source, faults>>

DeleteJob ==
    /\ job.uid # 0
    /\ Disturb
    /\ job' = NoJob
    /\ UNCHANGED <<op, lastUid, worker, lastPod, entry, inputs, faults>>

-----------------------------------------------------------------------------
(* Kubernetes: the job controller, the kubelet and the garbage collector. *)

\* The job controller starts a pod, for the first time or instead of a lost
\* one; the pod runs once its entrypoint ConfigMap can be mounted.
StartPod ==
    /\ job.uid # 0 /\ job.cond = "none" /\ ~job.suspend
    /\ entry.uid # 0
    /\ lastPod < MaxPods
    /\ lastPod' = lastPod + 1
    /\ job' = [job EXCEPT !.pods = @ \cup {lastPod + 1}]
    /\ UNCHANGED <<op, lastUid, worker, entry, inputs, edits, faults>>

LosePod ==
    /\ \E k \in job.pods : job' = [job EXCEPT !.pods = @ \ {k}]
    /\ UNCHANGED <<op, lastUid, worker, lastPod, entry, inputs, edits, faults>>

EndJob(c) ==
    /\ job.uid # 0 /\ job.cond = "none"
    /\ c = "Complete" => job.pods # {}
    /\ c = "Suspended" => job.suspend
    /\ job' = [job EXCEPT !.cond = c, !.pods = {}]
    /\ UNCHANGED <<op, lastUid, worker, lastPod, entry, inputs, edits, faults>>

\* An object whose owner is gone is deleted in the background.
CollectOps ==
    /\ op.uid # 0 /\ op.owned /\ ~cluster
    /\ op' = NoOperation
    /\ UNCHANGED <<lastUid, worker, workload, inputs, edits, faults>>

CollectJob ==
    /\ job.uid \notin {0, op.uid}
    /\ job' = NoJob
    /\ UNCHANGED <<op, lastUid, worker, lastPod, entry, inputs, edits, faults>>

CollectEntrypoint ==
    /\ entry.uid # 0 /\ entry.owners # {} /\ op.uid \notin entry.owners
    /\ entry' = NoEntrypoint
    /\ UNCHANGED <<op, lastUid, worker, job, lastPod, inputs, edits, faults>>

Users == \/ \E s \in Specs : CreateOps(s) \/ EditSpec(s)
         \/ DeleteOps
         \/ \E d \in DataKinds : RemoveInput(d)
         \/ DeleteCluster
         \/ DeleteJob

Kubernetes == \/ StartPod \/ LosePod
              \/ \E c \in Conditions \ {"none"} : EndJob(c)
              \/ CollectOps \/ CollectJob \/ CollectEntrypoint

Replica(p) == Stage(p) \/ CacheSync(p) \/ Resync(p) \/ FailedCall(p) \/ Crash(p)

Next == (\E p \in Replicas : Replica(p)) \/ Users \/ Kubernetes

Spec == Init /\ [][Next]_vars

\* A replica's worker takes the name from its queue and runs its passes; its
\* informer delivers events and resyncs; a suspended job stops and the
\* garbage collector works.
OperatorFairness ==
    /\ \A p \in Replicas : /\ WF_vars(Stage(p))
                           /\ WF_vars(CacheSync(p))
                           /\ WF_vars(Resync(p))
    /\ WF_vars(EndJob("Suspended"))
    /\ WF_vars(CollectOps) /\ WF_vars(CollectJob) /\ WF_vars(CollectEntrypoint)

\* The job ends: its pod starts and finishes, or the job fails.
JobFairness == WF_vars(StartPod) /\ WF_vars(EndJob("Complete") \/ EndJob("Failed"))

OperatorSpec == Spec /\ OperatorFairness
FairSpec == OperatorSpec /\ JobFairness
=============================================================================
