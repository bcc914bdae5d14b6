-------------------------- MODULE ClusterOpsProofs --------------------------
(* Theorems about ClusterOps, for every value of its constants. *)
EXTENDS ClusterOpsProperties, TLAPS

LEMMA SomeSpecType == SomeSpec \in Specs
  <1>1. PICK a \in Actions, x \in ExtraArgs, i \in Images : TRUE
    BY SpecsAssumption
  <1>2. [action |-> a, extraArgs |-> x, image |-> i] \in Specs
    BY <1>1 DEF Specs
  <1> QED BY <1>2, Zenon DEF SomeSpec

LEMMA NewOperationType ==
    ASSUME NEW u \in Nat, NEW s \in Specs
    PROVE  NewOperation(u, s) \in Operations
  BY SMT DEF NewOperation, Operations, Statuses

LEMMA NoOperationType == NoOperation \in Operations
  <1>1. NewOperation(0, SomeSpec) \in Operations
    BY SomeSpecType, NewOperationType
  <1> QED BY <1>1, SMT DEF NoOperation, Operations

LEMMA NewJobType ==
    ASSUME NEW m \in Operations, NEW i \in JobIds \cup {0}
    PROVE  NewJob(i, m) \in Jobs
  BY SMT DEF NewJob, Jobs, Operations, Conditions

LEMMA NoJobType == NoJob \in Jobs
  BY NoOperationType, NewJobType DEF NoJob

LEMMA NewEntrypointType ==
    ASSUME NEW m \in Operations
    PROVE  NewEntrypoint(m) \in Entrypoints
  BY SMT DEF NewEntrypoint, Entrypoints, Operations

LEMMA NoEntrypointType == NoEntrypoint \in Entrypoints
  BY SomeSpecType, SMT DEF NoEntrypoint, Entrypoints

LEMMA IdleType == Idle \in Passes
  BY NoOperationType, SMT DEF Idle, Passes, Steps, Statuses

LEMMA CalSaltType == ASSUME NEW s \in Specs PROVE CalSalt(s) \in Salts
  BY SMT DEF CalSalt, Specs, Salts

LEMMA InitTypeOK == Init => TypeOK
  <1> SUFFICES ASSUME Init PROVE TypeOK
    OBVIOUS
  <1> USE DEF Init
  <1>1. op \in Operations /\ cache \in [Replicas -> Operations]
    BY NoOperationType
  <1>2. pass \in [Replicas -> Passes] /\ queued \in [Replicas -> BOOLEAN]
    BY IdleType
  <1>3. job \in Jobs
    BY NoJobType
  <1>4. entry \in Entrypoints
    BY NoEntrypointType
  <1> QED BY <1>1, <1>2, <1>3, <1>4, SMT DEF TypeOK

-----------------------------------------------------------------------------
(* The steps keep the types. *)

WorkerTypeOK == /\ cache \in [Replicas -> Operations]
                /\ queued \in [Replicas -> BOOLEAN]
                /\ pass \in [Replicas -> Passes]

LEMMA SnapshotType ==
    ASSUME TypeOK, NEW p \in Replicas
    PROVE  /\ Snapshot(p) \in Operations
           /\ pass[p].job \in JobIds \cup {0}
           /\ pass[p].pod \in Nat
           /\ pass[p].copy \in Copies \cup {None}
           /\ pass[p].result \in Statuses
  BY SMT DEF TypeOK, Snapshot, Passes

LEMMA ReturnType ==
    ASSUME TypeOK, NEW p \in Replicas, NEW again \in BOOLEAN, Return(p, again)
    PROVE  WorkerTypeOK'
  BY IdleType, SMT DEF TypeOK, WorkerTypeOK, Return

LEMMA GotoType ==
    ASSUME TypeOK, NEW p \in Replicas, NEW s \in Steps, Goto(p, s)
    PROVE  WorkerTypeOK'
  BY SMT DEF TypeOK, WorkerTypeOK, Goto, Passes

\* Setting one field of a record to a value of its type keeps the type.
LEMMA ExceptType ==
    ASSUME NEW m \in Operations
    PROVE  /\ \A v \in Nat : [m EXCEPT !.rv = v] \in Operations
           /\ \A v \in Nat : [m EXCEPT !.actor = v] \in Operations
           /\ \A v \in Specs : [m EXCEPT !.spec = v] \in Operations
           /\ \A v \in Salts : [m EXCEPT !.digest = v] \in Operations
           /\ \A v \in Statuses : [m EXCEPT !.status = v] \in Operations
           /\ [m EXCEPT !.owned = TRUE] \in Operations
           /\ [m EXCEPT !.modified = TRUE] \in Operations
           /\ [m EXCEPT !.completed = TRUE] \in Operations
           /\ [m EXCEPT !.entry = TRUE, !.named = TRUE] \in Operations
           /\ [m EXCEPT !.jobRef = TRUE, !.status = "Running"] \in Operations
           /\ \A d, c : c \in Copies \cup {None} =>
                 [m EXCEPT !.refs[d] = c, !.named = TRUE] \in Operations
  <1>1. \A v \in Nat : [m EXCEPT !.rv = v] \in Operations
    BY SMT DEF Operations
  <1>2. \A v \in Nat : [m EXCEPT !.actor = v] \in Operations
    BY SMT DEF Operations
  <1>3. \A v \in Specs : [m EXCEPT !.spec = v] \in Operations
    BY SMT DEF Operations
  <1>4. \A v \in Salts : [m EXCEPT !.digest = v] \in Operations
    BY SMT DEF Operations
  <1>5. \A v \in Statuses : [m EXCEPT !.status = v] \in Operations
    BY SMT DEF Operations
  <1>6. [m EXCEPT !.owned = TRUE] \in Operations
    BY Zenon DEF Operations
  <1>7. [m EXCEPT !.modified = TRUE] \in Operations
    BY Zenon DEF Operations
  <1>8. [m EXCEPT !.completed = TRUE] \in Operations
    BY Zenon DEF Operations
  <1>9. [m EXCEPT !.entry = TRUE, !.named = TRUE] \in Operations
    BY Zenon DEF Operations
  <1>10. [m EXCEPT !.jobRef = TRUE, !.status = "Running"] \in Operations
    BY Zenon DEF Operations, Statuses
  <1>11. ASSUME NEW d, NEW c \in Copies \cup {None}
         PROVE  [m EXCEPT !.refs[d] = c, !.named = TRUE] \in Operations
    BY Zenon DEF Operations
  <1> QED
    BY <1>1, <1>2, <1>3, <1>4, <1>5, <1>6, <1>7, <1>8, <1>9, <1>10, <1>11

LEMMA PassType ==
    ASSUME TypeOK, NEW p \in Replicas, NEW s \in Steps
    PROVE  /\ [pass EXCEPT ![p].at = s] \in [Replicas -> Passes]
           /\ \A v \in JobIds \cup {0} :
                [pass EXCEPT ![p].at = s, ![p].job = v] \in [Replicas -> Passes]
           /\ \A v \in Nat :
                [pass EXCEPT ![p].pod = v, ![p].at = s] \in [Replicas -> Passes]
           /\ \A v \in Copies :
                [pass EXCEPT ![p].copy = v, ![p].at = s] \in [Replicas -> Passes]
           /\ \A v \in Statuses :
                [pass EXCEPT ![p].result = v, ![p].at = s] \in [Replicas -> Passes]
           /\ \A v \in Operations :
                /\ [pass EXCEPT ![p].at = s, ![p].ops = v] \in [Replicas -> Passes]
                /\ [pass EXCEPT ![p] = [Idle EXCEPT !.at = s, !.ops = v]]
                     \in [Replicas -> Passes]
  <1>1. pass \in [Replicas -> Passes]
    BY DEF TypeOK
  <1>2. [pass EXCEPT ![p].at = s] \in [Replicas -> Passes]
    BY <1>1, Zenon DEF Passes
  <1>3. ASSUME NEW v \in JobIds \cup {0}
        PROVE  [pass EXCEPT ![p].at = s, ![p].job = v] \in [Replicas -> Passes]
    BY <1>1, Zenon DEF Passes
  <1>4. ASSUME NEW v \in Nat
        PROVE  [pass EXCEPT ![p].pod = v, ![p].at = s] \in [Replicas -> Passes]
    BY <1>1, Zenon DEF Passes
  <1>5. ASSUME NEW v \in Copies
        PROVE  [pass EXCEPT ![p].copy = v, ![p].at = s] \in [Replicas -> Passes]
    BY <1>1, Zenon DEF Passes
  <1>6. ASSUME NEW v \in Statuses
        PROVE  [pass EXCEPT ![p].result = v, ![p].at = s] \in [Replicas -> Passes]
    BY <1>1, Zenon DEF Passes
  <1>7. ASSUME NEW v \in Operations
        PROVE  [pass EXCEPT ![p].at = s, ![p].ops = v] \in [Replicas -> Passes]
    BY <1>1, Zenon DEF Passes
  <1>8. ASSUME NEW v \in Operations
        PROVE  [pass EXCEPT ![p] = [Idle EXCEPT !.at = s, !.ops = v]] \in [Replicas -> Passes]
    <2>1. [Idle EXCEPT !.at = s, !.ops = v] \in Passes
      BY IdleType, Zenon DEF Passes
    <2> QED BY <1>1, <2>1
  <1> QED BY <1>2, <1>3, <1>4, <1>5, <1>6, <1>7, <1>8

LEMMA UpdateType ==
    ASSUME TypeOK, NEW p \in Replicas, NEW m \in Operations, Update(p, m)
    PROVE  op' \in Operations
  <1>1. m.rv \in Nat
    BY SMT DEF Operations
  <1>2. m.rv + 1 \in Nat
    BY <1>1, SMT
  <1>3. [m EXCEPT !.rv = m.rv + 1] \in Operations
    BY <1>2, ExceptType
  <1> QED BY <1>3, Zenon DEF Update, TypeOK

LEMMA UpdateAndReturnType ==
    ASSUME TypeOK, NEW p \in Replicas, NEW m \in Operations, UpdateAndReturn(p, m)
    PROVE  TypeOK'
  <1>1. op' \in Operations
    BY UpdateType DEF UpdateAndReturn
  <1>2. WorkerTypeOK'
    BY ReturnType DEF UpdateAndReturn
  <1> QED BY <1>1, <1>2, SMT DEF UpdateAndReturn, TypeOK, WorkerTypeOK, workload, inputs

LEMMA NextStageType == ASSUME NEW m PROVE NextStage(m) \in Steps
  BY SMT DEF NextStage, Steps

LEMMA StageType ==
    ASSUME TypeOK, NEW p \in Replicas, Stage(p)
    PROVE  TypeOK'
  <1> DEFINE m == Snapshot(p)
  <1>0. m \in Operations
    BY SnapshotType
  <1>1. CASE Reconcile(p)
    <2>1. cache[p] \in Operations
      BY DEF TypeOK
    <2>2. "suspendGet" \in Steps /\ "check" \in Steps
      BY DEF Steps
    <2> DEFINE s == IF cache[p].jobRef THEN "suspendGet" ELSE "check"
    <2>3. s \in Steps
      BY <2>2
    <2> HIDE DEF s
    <2>4. [pass EXCEPT ![p] = [Idle EXCEPT !.at = s, !.ops = cache[p]]]
            \in [Replicas -> Passes]
      BY <2>1, <2>3, PassType
    <2>5. pass' \in [Replicas -> Passes]
      BY <1>1, <2>4 DEF Reconcile, TypeOK, s
    <2>6. queued' \in [Replicas -> BOOLEAN]
      BY <1>1, Zenon DEF Reconcile, TypeOK
    <2> QED BY <1>1, <2>5, <2>6, Zenon DEF Reconcile, TypeOK, workload, inputs
  <1>2. CASE SuspendGetJob(p)
    <2>1. job.id \in JobIds \cup {0}
      BY SMT DEF TypeOK, Jobs
    <2>2. "check" \in Steps /\ "suspendList" \in Steps
      BY DEF Steps
    <2>3. /\ [pass EXCEPT ![p].at = "check"] \in [Replicas -> Passes]
          /\ [pass EXCEPT ![p].at = "suspendList", ![p].job = job.id]
               \in [Replicas -> Passes]
      BY <2>1, <2>2, PassType
    <2>4. pass' \in [Replicas -> Passes]
      BY <1>2, <2>3, Zenon DEF SuspendGetJob
    <2> QED BY <1>2, <2>4, SMT DEF SuspendGetJob, TypeOK, workload, inputs
  <1>3. CASE SuspendListPods(p)
    <2>1. CASE Goto(p, "check")
      <3>1. WorkerTypeOK'
        BY <2>1, GotoType DEF Steps
      <3> QED BY <1>3, <3>1, SMT DEF SuspendListPods, WorkerTypeOK, TypeOK, workload, inputs
    <2>2. CASE ~Goto(p, "check")
      <3>1. PICK k \in job.pods :
              pass' = [pass EXCEPT ![p].pod = k,
                         ![p].at = IF Snapshot(p).actor = 0 THEN "annotate"
                                   ELSE IF Snapshot(p).actor # k THEN "suspend"
                                   ELSE "check"]
        BY <1>3, <2>2, Zenon DEF SuspendListPods
      <3>2. k \in Nat
        BY SMT DEF TypeOK, Jobs
      <3>3. pass' \in [Replicas -> Passes]
        <4> DEFINE s == IF Snapshot(p).actor = 0 THEN "annotate"
                        ELSE IF Snapshot(p).actor # k THEN "suspend" ELSE "check"
        <4>1. s \in Steps
          BY SMT DEF Steps
        <4> HIDE DEF s
        <4>2. [pass EXCEPT ![p].pod = k, ![p].at = s] \in [Replicas -> Passes]
          BY <3>2, <4>1, PassType
        <4> QED BY <3>1, <4>2 DEF s
      <3> QED BY <1>3, <2>2, <3>3, SMT DEF SuspendListPods, TypeOK, workload, inputs
    <2> QED BY <2>1, <2>2
  <1>4. CASE Annotate(p)
    <2>1. [m EXCEPT !.actor = pass[p].pod] \in Operations
      BY <1>0, SnapshotType, ExceptType
    <2> QED BY <1>4, <2>1, UpdateAndReturnType DEF Annotate
  <1>5. CASE SuspendJob(p)
    <2>1. job' \in Jobs
      BY <1>5, Zenon DEF SuspendJob, TypeOK, Jobs
    <2>2. WorkerTypeOK'
      BY <1>5, ReturnType DEF SuspendJob
    <2> QED BY <1>5, <2>1, <2>2, SMT DEF SuspendJob, WorkerTypeOK, TypeOK, inputs
  <1>6. CASE Check(p)
    <2>1. WorkerTypeOK'
      BY <1>6, ReturnType, GotoType, NextStageType DEF Check, Steps
    <2> QED BY <1>6, <2>1, SMT DEF Check, WorkerTypeOK, TypeOK, workload, inputs
  <1>7. CASE FailOps(p)
    <2>1. [m EXCEPT !.status = "Failed"] \in Operations
      BY <1>0, ExceptType DEF Statuses
    <2>2. op' \in Operations
      BY <1>7, <2>1, UpdateType DEF FailOps
    <2>3. WorkerTypeOK'
      BY <1>7, ReturnType DEF FailOps
    <2> QED BY <1>7, <2>2, <2>3, SMT DEF FailOps, WorkerTypeOK, TypeOK, workload, inputs
  <1>8. CASE UpdateOperationOwnReferenceForCluster(p)
    <2>1. [m EXCEPT !.owned = TRUE] \in Operations
      BY <1>0, ExceptType
    <2> QED BY <1>8, <2>1, UpdateAndReturnType DEF UpdateOperationOwnReferenceForCluster
  <1>9. CASE UpdateClusterOpsStatusDigest(p)
    <2>1. CalSalt(m.spec) \in Salts
      BY <1>0, CalSaltType DEF Operations
    <2>2. [m EXCEPT !.digest = CalSalt(m.spec)] \in Operations
      BY <1>0, <2>1, ExceptType
    <2> QED BY <1>9, <2>2, UpdateAndReturnType DEF UpdateClusterOpsStatusDigest
  <1>10. CASE UpdateStatusHasModified(p)
    <2>1. [m EXCEPT !.modified = TRUE] \in Operations
      BY <1>0, ExceptType
    <2> QED BY <1>10, <2>1, UpdateAndReturnType DEF UpdateStatusHasModified
  <1>11. CASE CopyInput(p)
    <2>1. WorkerTypeOK'
      <3>1. CASE Return(p, TRUE)
        BY <3>1, ReturnType
      <3>2. CASE ~Return(p, TRUE)
        <4>1. PICK c \in Copies :
                pass' = [pass EXCEPT ![p].copy = c, ![p].at = "copyRecord"]
          BY <1>11, <3>2, Zenon DEF CopyInput, Least
        <4>2. pass' \in [Replicas -> Passes]
          BY <4>1, PassType, "copyRecord" \in Steps DEF Steps
        <4> QED BY <1>11, <3>2, <4>2, Zenon DEF CopyInput, TypeOK, WorkerTypeOK
      <3> QED BY <3>1, <3>2
    <2> QED BY <1>11, <2>1, SMT DEF CopyInput, WorkerTypeOK, TypeOK, workload, inputs
  <1>12. CASE RecordCopy(p)
    <2>1. [m EXCEPT !.refs[NextInput(m)] = pass[p].copy, !.named = TRUE] \in Operations
      BY <1>0, SnapshotType, ExceptType
    <2> QED BY <1>12, <2>1, UpdateAndReturnType DEF RecordCopy
  <1>13. CASE RejectArgs(p)
    <2>1. [m EXCEPT !.status = "Failed"] \in Operations
      BY <1>0, ExceptType DEF Statuses
    <2> QED BY <1>13, <2>1, UpdateAndReturnType DEF RejectArgs
  <1>14. CASE CreateEntryPointShellConfigMap(p)
    <2>1. entry' \in Entrypoints
      BY <1>0, <1>14, NewEntrypointType DEF CreateEntryPointShellConfigMap
    <2>2. WorkerTypeOK'
      BY <1>14, GotoType DEF CreateEntryPointShellConfigMap, Steps
    <2> QED BY <1>14, <2>1, <2>2, SMT
            DEF CreateEntryPointShellConfigMap, WorkerTypeOK, TypeOK, inputs
  <1>15. CASE RecordEntryPoint(p)
    <2>1. [m EXCEPT !.entry = TRUE, !.named = TRUE] \in Operations
      BY <1>0, ExceptType
    <2> QED BY <1>15, <2>1, UpdateAndReturnType DEF RecordEntryPoint
  <1>16. CASE GetJob(p)
    <2>1. WorkerTypeOK'
      BY <1>16, ReturnType, GotoType DEF GetJob, Steps
    <2> QED BY <1>16, <2>1, SMT DEF GetJob, WorkerTypeOK, TypeOK, workload, inputs
  <1>17. CASE CreateJob(p)
    <2>1. job' \in Jobs
      BY <1>0, <1>17, NewJobType, Zenon DEF CreateJob, Least, TypeOK
    <2>2. WorkerTypeOK'
      BY <1>17, ReturnType, GotoType DEF CreateJob, Steps
    <2> QED BY <1>17, <2>1, <2>2, SMT DEF CreateJob, WorkerTypeOK, TypeOK, inputs
  <1>18. CASE RecordJob(p)
    <2>1. [m EXCEPT !.jobRef = TRUE, !.status = "Running"] \in Operations
      BY <1>0, ExceptType DEF Statuses
    <2> QED BY <1>18, <2>1, UpdateAndReturnType DEF RecordJob
  <1>19. CASE FetchJobStatus(p)
    <2>1. JobStatus \in Statuses
      BY SMT DEF JobStatus, Statuses
    <2>2. WorkerTypeOK'
      <3>1. CASE Return(p, TRUE)
        BY <3>1, ReturnType
      <3>2. CASE ~Return(p, TRUE)
        <4>1. "result" \in Steps
          BY DEF Steps
        <4>2. [pass EXCEPT ![p].result = JobStatus, ![p].at = "result"]
                \in [Replicas -> Passes]
          BY <2>1, <4>1, PassType
        <4> QED BY <1>19, <3>2, <4>2, Zenon DEF FetchJobStatus, TypeOK, WorkerTypeOK
      <3> QED BY <3>1, <3>2
    <2> QED BY <1>19, <2>2, SMT DEF FetchJobStatus, WorkerTypeOK, TypeOK, workload, inputs
  <1>20. CASE RecordResult(p)
    <2>1. [m EXCEPT !.status = pass[p].result] \in Operations
      BY <1>0, SnapshotType, ExceptType
    <2>2. op' \in Operations
      BY <1>20, <2>1, UpdateType DEF RecordResult
    <2>3. WorkerTypeOK'
      <3>1. CASE Return(p, TRUE)
        BY <3>1, ReturnType
      <3>2. CASE ~Return(p, TRUE)
        <4>1. "label" \in Steps
          BY DEF Steps
        <4>2. [pass EXCEPT ![p].at = "label", ![p].ops = op'] \in [Replicas -> Passes]
          BY <2>2, <4>1, PassType
        <4> QED BY <1>20, <3>2, <4>2, Zenon DEF RecordResult, TypeOK, WorkerTypeOK
      <3> QED BY <3>1, <3>2
    <2> QED BY <1>20, <2>2, <2>3, SMT DEF RecordResult, WorkerTypeOK, TypeOK, workload, inputs
  <1>21. CASE UpdateStatusForLabel(p)
    <2>1. [m EXCEPT !.completed = TRUE] \in Operations
      BY <1>0, ExceptType
    <2>2. op' \in Operations
      BY <1>21, <2>1, UpdateType DEF UpdateStatusForLabel
    <2>3. WorkerTypeOK'
      BY <1>21, ReturnType, Zenon DEF UpdateStatusForLabel, Fresh
    <2> QED BY <1>21, <2>2, <2>3, SMT DEF UpdateStatusForLabel, WorkerTypeOK, TypeOK, workload, inputs
  <1>22. CASE UpdateOwnReferenceToClusterOps(p)
    <2>1. m.uid \in Nat
      BY <1>0, SMT DEF Operations
    <2>2. entry' \in Entrypoints
      <3>1. entry \in Entrypoints
        BY DEF TypeOK
      <3>2. [entry EXCEPT !.owners = @ \cup {m.uid}] \in Entrypoints
        BY <2>1, <3>1, SMT DEF Entrypoints
      <3> QED BY <1>22, <3>1, <3>2, Zenon DEF UpdateOwnReferenceToClusterOps
    <2>3. WorkerTypeOK'
      <3> DEFINE s == IF m.jobRef THEN "fetch" ELSE "job"
      <3>1. s \in Steps
        BY DEF Steps
      <3>2. Goto(p, s)
        BY <1>22 DEF UpdateOwnReferenceToClusterOps
      <3> HIDE DEF s
      <3> QED BY <3>1, <3>2, GotoType
    <2> QED BY <1>22, <2>2, <2>3, SMT
            DEF UpdateOwnReferenceToClusterOps, WorkerTypeOK, TypeOK, inputs
  <1> QED
    BY <1>1, <1>2, <1>3, <1>4, <1>5, <1>6, <1>7, <1>8, <1>9, <1>10, <1>11, <1>12,
       <1>13, <1>14, <1>15, <1>16, <1>17, <1>18, <1>19, <1>20, <1>21, <1>22 DEF Stage

LEMMA ReplicaType ==
    ASSUME TypeOK, NEW p \in Replicas, Replica(p)
    PROVE  TypeOK'
  <1>1. CASE Stage(p)
    BY <1>1, StageType
  <1>2. CASE CacheSync(p)
    BY <1>2, Zenon DEF CacheSync, TypeOK, workload, inputs
  <1>3. CASE Resync(p)
    BY <1>3, Zenon DEF Resync, TypeOK, workload, inputs
  <1>4. CASE FailedCall(p)
    <2>1. WorkerTypeOK'
      BY <1>4, ReturnType, GotoType, NextStageType, "check" \in Steps
         DEF FailedCall, Steps
    <2>2. faults' \in Nat
      BY <1>4, SMT DEF FailedCall, TypeOK
    <2> QED BY <1>4, <2>1, <2>2, Zenon DEF FailedCall, WorkerTypeOK, TypeOK, workload, inputs
  <1>5. CASE Crash(p)
    <2>1. faults' \in Nat
      BY <1>5, SMT DEF Crash, TypeOK
    <2>2. pass' \in [Replicas -> Passes]
      BY <1>5, IdleType, Zenon DEF Crash, TypeOK
    <2>3. queued' \in [Replicas -> BOOLEAN] /\ cache' \in [Replicas -> Operations]
      BY <1>5, Zenon DEF Crash, TypeOK
    <2> QED BY <1>5, <2>1, <2>2, <2>3, Zenon DEF Crash, TypeOK, workload, inputs
  <1> QED BY <1>1, <1>2, <1>3, <1>4, <1>5 DEF Replica

LEMMA EnvironmentType ==
    ASSUME TypeOK, Users \/ Kubernetes
    PROVE  TypeOK'
  <1>1. ASSUME NEW s \in Specs, CreateOps(s) PROVE TypeOK'
    <2>1. lastUid + 1 \in Nat
      BY SMT DEF TypeOK
    <2>2. NewOperation(lastUid + 1, s) \in Operations
      BY <2>1, NewOperationType
    <2> QED BY <1>1, <2>1, <2>2, Zenon DEF CreateOps, TypeOK, worker, workload, inputs
  <1>2. CASE DeleteOps \/ CollectOps
    BY <1>2, NoOperationType, Zenon DEF DeleteOps, CollectOps, TypeOK, worker, workload, inputs
  <1>3. ASSUME Disturb PROVE edits' \in Nat
    BY <1>3, SMT DEF Disturb, TypeOK
  <1>4. ASSUME NEW s \in Specs, EditSpec(s) PROVE TypeOK'
    <2>1. op.rv + 1 \in Nat
      BY SMT DEF TypeOK, Operations
    <2>2. [op EXCEPT !.spec = s] \in Operations
      BY ExceptType DEF TypeOK
    <2>3. [[op EXCEPT !.spec = s] EXCEPT !.rv = op.rv + 1] \in Operations
      BY <2>1, <2>2, ExceptType
    <2>4. [op EXCEPT !.spec = s, !.rv = op.rv + 1]
            = [[op EXCEPT !.spec = s] EXCEPT !.rv = op.rv + 1]
      BY Zenon
    <2> QED BY <1>3, <1>4, <2>3, <2>4, Zenon DEF EditSpec, TypeOK, worker, workload, inputs
  <1>5. ASSUME NEW d \in DataKinds, RemoveInput(d) PROVE TypeOK'
    BY <1>3, <1>5, Zenon DEF RemoveInput, TypeOK, worker, workload
  <1>6. CASE DeleteCluster
    BY <1>3, <1>6, Zenon DEF DeleteCluster, TypeOK, worker, workload
  <1>7. CASE DeleteJob
    BY <1>3, <1>7, NoJobType, Zenon DEF DeleteJob, TypeOK, worker, inputs
  <1>8. CASE StartPod
    <2>1. lastPod + 1 \in Nat
      BY SMT DEF TypeOK
    <2>2. job' \in Jobs
      BY <1>8, <2>1, SMT DEF StartPod, TypeOK, Jobs
    <2> QED BY <1>8, <2>1, <2>2, Zenon DEF StartPod, TypeOK, worker, inputs
  <1>9. CASE LosePod
    <2>1. job' \in Jobs
      BY <1>9, SMT DEF LosePod, TypeOK, Jobs
    <2> QED BY <1>9, <2>1, Zenon DEF LosePod, TypeOK, worker, inputs
  <1>10. ASSUME NEW c \in Conditions \ {"none"}, EndJob(c) PROVE TypeOK'
    <2>1. job' \in Jobs
      BY <1>10, Zenon DEF EndJob, TypeOK, Jobs
    <2> QED BY <1>10, <2>1, Zenon DEF EndJob, TypeOK, worker, inputs
  <1>11. CASE CollectJob
    BY <1>11, NoJobType, Zenon DEF CollectJob, TypeOK, worker, inputs
  <1>12. CASE CollectEntrypoint
    <2> QED BY <1>12, NoEntrypointType, Zenon DEF CollectEntrypoint, TypeOK, worker, inputs
  <1> QED
    BY <1>1, <1>2, <1>4, <1>5, <1>6, <1>7, <1>8, <1>9, <1>10, <1>11, <1>12
       DEF Users, Kubernetes

LEMMA NextTypeOK == TypeOK /\ [Next]_vars => TypeOK'
  <1> SUFFICES ASSUME TypeOK, [Next]_vars PROVE TypeOK'
    OBVIOUS
  <1>1. CASE Next
    BY <1>1, ReplicaType, EnvironmentType DEF Next
  <1>2. CASE UNCHANGED vars
    BY <1>2, Zenon DEF vars, worker, workload, inputs, TypeOK
  <1> QED BY <1>1, <1>2

\* Every reachable state has its type: what the API server stores, what the
\* caches and passes hold, and the jobs and scripts the passes write.
THEOREM TypeCorrect == Spec => []TypeOK
  <1> QED BY InitTypeOK, NextTypeOK, PTL DEF Spec

-----------------------------------------------------------------------------
(* How a step moves the stored object, and what that does to its versions. *)

Moves(o, u, o2, u2) ==
    \/ o2 = o /\ u2 = u
    \/ /\ u2 = u /\ o.uid # 0 /\ o2.uid = o.uid
       /\ o2.rv = o.rv + 1
       /\ Keeps(o, o2)
       /\ Finished(o) => o2.status = o.status
       /\ BackedUp(o2) => o2.named
    \/ u2 = u /\ o2 = NoOperation
    \/ u2 = u + 1 /\ o2.uid = u + 1 /\ ~BackedUp(o2)

LEMMA NothingBackedUp == ASSUME NEW u, NEW s PROVE ~BackedUp(NewOperation(u, s))
  <1>1. "hosts" \in DataKinds
    BY DEF DataKinds
  <1>2. NewOperation(u, s).refs["hosts"] = None
    BY <1>1 DEF NewOperation
  <1> QED BY <1>1, <1>2 DEF BackedUp

LEMMA NoOperationFacts == NoOperation.uid = 0 /\ ~BackedUp(NoOperation)
  <1>1. NoOperation.uid = 0
    BY Zenon DEF NoOperation, NewOperation
  <1>2. NoOperation.refs = NewOperation(0, SomeSpec).refs
    BY Zenon DEF NoOperation, NewOperation
  <1> QED BY <1>1, <1>2, NothingBackedUp DEF BackedUp

LEMMA NoOperationIsVersion ==
    ASSUME NEW o \in Operations, NEW u \in Nat
    PROVE  IsVersion(NoOperation, o, u)
  BY NoOperationFacts, SMT DEF IsVersion

LEMMA VersionKept ==
    ASSUME NEW m \in Operations, NEW o \in Operations, NEW o2 \in Operations,
           NEW u \in Nat, NEW u2 \in Nat,
           IsVersion(m, o, u), IsVersion(o, o, u), Moves(o, u, o2, u2)
    PROVE  IsVersion(m, o2, u2) /\ IsVersion(o2, o2, u2)
  <1>1. CASE o2 = o /\ u2 = u
    BY <1>1
  <1>2. CASE /\ u2 = u /\ o.uid # 0 /\ o2.uid = o.uid
             /\ o2.rv = o.rv + 1
             /\ Keeps(o, o2)
             /\ BackedUp(o2) => o2.named
    <2>1. m.uid \in Nat /\ m.rv \in Nat /\ o.uid \in Nat /\ o.rv \in Nat
      BY SMT DEF Operations
    <2>2. m.uid = o.uid => Keeps(m, o2)
      BY <1>2, Zenon DEF Keeps, IsVersion
    <2>3. m.uid <= u /\ (BackedUp(m) => m.named) /\ (m.uid = o.uid => m.rv <= o.rv)
      BY <1>2 DEF IsVersion
    <2>4. m.uid = o.uid => m.rv <= o2.rv /\ m.rv # o2.rv
      BY <1>2, <2>1, <2>3, SMT
    <2>5. IsVersion(m, o2, u2)
      BY <1>2, <2>2, <2>3, <2>4, Zenon DEF IsVersion
    <2>6. o2.uid <= u2 /\ o2.rv <= o2.rv
      BY <1>2, <2>1, SMT DEF IsVersion
    <2>7. Keeps(o2, o2)
      BY DEF Keeps
    <2> QED BY <1>2, <2>5, <2>6, <2>7 DEF IsVersion
  <1>3. CASE u2 = u /\ o2 = NoOperation
    BY <1>3, NoOperationFacts, NoOperationIsVersion DEF IsVersion
  <1>4. CASE u2 = u + 1 /\ o2.uid = u + 1 /\ ~BackedUp(o2)
    <2>1. m.uid <= u /\ m.uid \in Nat
      BY DEF IsVersion, Operations
    <2>2. m.uid <= u2 /\ m.uid # o2.uid
      BY <1>4, <2>1, SMT
    <2>3. IsVersion(m, o2, u2)
      BY <2>2, Zenon DEF IsVersion
    <2>4. o2.uid <= u2 /\ o2.rv <= o2.rv
      BY <1>4, SMT DEF Operations
    <2>5. Keeps(o2, o2)
      BY DEF Keeps
    <2> QED BY <1>4, <2>3, <2>4, <2>5 DEF IsVersion
  <1> QED BY <1>1, <1>2, <1>3, <1>4 DEF Moves

LEMMA SignedKept ==
    ASSUME NEW e, e.uid \in Nat, e.spec \in Specs,
           NEW o \in Operations, NEW o2 \in Operations,
           NEW u \in Nat, NEW u2 \in Nat,
           e.uid <= u, Signed(e, o), Moves(o, u, o2, u2)
    PROVE  Signed(e, o2)
  <1> SUFFICES ASSUME e.uid # 0, e.uid = o2.uid
               PROVE  o2.digest = CalSalt(e.spec) \/ o2.modified
    BY DEF Signed
  <1>1. CASE o2 = o
    BY <1>1 DEF Signed
  <1>2. CASE o2.uid = o.uid /\ Keeps(o, o2)
    <2>1. CalSalt(e.spec) # None
      BY CalSaltType, NamesAssumption
    <2> QED BY <1>2, <2>1, Zenon DEF Signed, Keeps
  <1>3. CASE o2 = NoOperation
    BY <1>3, NoOperationFacts
  <1>4. CASE o2.uid = u + 1
    BY <1>4, SMT
  <1> QED BY <1>1, <1>2, <1>3, <1>4 DEF Moves

LEMMA SameRefs ==
    ASSUME NEW r \in [DataKinds -> Copies \cup {None}],
           NEW t \in [DataKinds -> Copies \cup {None}],
           \A d \in DataKinds : r[d] = t[d]
    PROVE  r = t
  OBVIOUS

LEMMA MountsKept ==
    ASSUME NEW j, j.uid \in Nat,
           NEW o \in Operations, NEW o2 \in Operations,
           NEW u \in Nat, NEW u2 \in Nat,
           j.uid <= u, Mounts(j, o), Moves(o, u, o2, u2)
    PROVE  Mounts(j, o2)
  <1> SUFFICES ASSUME j.uid # 0, j.uid = o2.uid
               PROVE  BackedUp(j) /\ j.refs = o2.refs /\ o2.entry /\ o2.named
    BY DEF Mounts
  <1>1. CASE o2 = o
    BY <1>1 DEF Mounts
  <1>2. CASE o2.uid = o.uid /\ Keeps(o, o2)
    <2>1. BackedUp(j) /\ j.refs = o.refs /\ o.entry /\ o.named
      BY <1>2 DEF Mounts
    <2>2. \A d \in DataKinds : o.refs[d] # None
      BY <2>1 DEF BackedUp
    <2>3. \A d \in DataKinds : o2.refs[d] = o.refs[d]
      BY <1>2, <2>2 DEF Keeps
    <2>4. /\ o.refs \in [DataKinds -> Copies \cup {None}]
          /\ o2.refs \in [DataKinds -> Copies \cup {None}]
      BY DEF Operations
    <2>5. o2.refs = o.refs
      BY <2>3, <2>4, SameRefs
    <2> QED BY <1>2, <2>1, <2>5, Zenon DEF Keeps
  <1>3. CASE o2 = NoOperation
    BY <1>3, NoOperationFacts
  <1>4. CASE o2.uid = u + 1
    BY <1>4, SMT
  <1> QED BY <1>1, <1>2, <1>3, <1>4 DEF Moves

-----------------------------------------------------------------------------
(* What every step does, in the terms of the invariant. *)

WorkerOK ==
    \A q \in Replicas : /\ StageOK(pass'[q].at, pass'[q].ops)
                        /\ cache'[q] \in {cache[q], op'}
                        /\ pass'[q].ops \in {pass[q].ops, cache[q], NoOperation, op'}

EntryOK == \/ entry'.uid = entry.uid /\ entry'.spec = entry.spec
           \/ entry'.uid = 0
           \/ op' = op /\ Signed(entry', op) /\ entry'.uid <= lastUid

JobOK == \/ job'.uid = job.uid /\ job'.spec = job.spec /\ job'.refs = job.refs
         \/ job'.uid = 0
         \/ op' = op /\ Signed(job', op) /\ Mounts(job', op) /\ job'.uid <= lastUid

StepOK == Moves(op, lastUid, op', lastUid') /\ WorkerOK /\ EntryOK /\ JobOK

LEMMA InvTypes ==
    ASSUME TypeOK
    PROVE  /\ op \in Operations /\ lastUid \in Nat
           /\ job.uid \in Nat /\ job.spec \in Specs
           /\ entry.uid \in Nat /\ entry.spec \in Specs
           /\ \A p \in Replicas : cache[p] \in Operations /\ pass[p].ops \in Operations
  BY SMT DEF TypeOK, Passes, Jobs, Entrypoints

\* A step of that kind keeps the invariant.
LEMMA StepKeepsInv == ASSUME Inv, TypeOK', StepOK PROVE Inv'
  <1>1. TypeOK /\ VersionsOK /\ IsVersion(op, op, lastUid)
    BY DEF Inv, VersionsOK
  <1>2. /\ op \in Operations /\ lastUid \in Nat
        /\ job.uid \in Nat /\ job.spec \in Specs
        /\ entry.uid \in Nat /\ entry.spec \in Specs
        /\ \A p \in Replicas : cache[p] \in Operations /\ pass[p].ops \in Operations
    BY <1>1, InvTypes
  <1>3. op' \in Operations /\ lastUid' \in Nat
    BY DEF TypeOK
  <1>4. Moves(op, lastUid, op', lastUid')
    BY DEF StepOK
  <1>5. lastUid <= lastUid'
    BY <1>2, <1>4, SMT DEF Moves
  <1>6. \A m \in Operations :
          IsVersion(m, op, lastUid) => IsVersion(m, op', lastUid')
    BY <1>1, <1>2, <1>3, <1>4, VersionKept
  <1>7. IsVersion(op', op', lastUid')
    BY <1>1, <1>2, <1>3, <1>4, VersionKept
  <1>8. IsVersion(NoOperation, op', lastUid')
    BY <1>3, NoOperationIsVersion
  <1>9. ASSUME NEW q \in Replicas
        PROVE  /\ IsVersion(cache'[q], op', lastUid')
               /\ IsVersion(pass'[q].ops, op', lastUid')
    <2>1. /\ IsVersion(cache[q], op', lastUid')
          /\ IsVersion(pass[q].ops, op', lastUid')
      BY <1>1, <1>2, <1>6 DEF VersionsOK
    <2>2. /\ cache'[q] \in {cache[q], op'}
          /\ pass'[q].ops \in {pass[q].ops, cache[q], NoOperation, op'}
      BY DEF StepOK, WorkerOK
    <2> QED BY <1>7, <1>8, <2>1, <2>2
  <1>10. entry'.uid <= lastUid' /\ Signed(entry', op')
    <2>1. entry.uid <= lastUid /\ Signed(entry, op)
      BY <1>1 DEF Inv, VersionsOK, SignedOrFlagged
    <2>2. CASE entry'.uid = entry.uid /\ entry'.spec = entry.spec
      <3>1. Signed(entry, op')
        BY <1>2, <1>3, <1>4, <2>1, SignedKept
      <3>2. entry.uid <= lastUid'
        BY <1>2, <1>3, <1>5, <2>1, SMT
      <3> QED BY <2>2, <3>1, <3>2 DEF Signed
    <2>3. CASE entry'.uid = 0
      BY <1>3, <2>3, SMT DEF Signed
    <2>4. CASE op' = op /\ Signed(entry', op) /\ entry'.uid <= lastUid
      <3>1. entry'.uid \in Nat
        BY SMT DEF TypeOK, Entrypoints
      <3>2. entry'.uid <= lastUid'
        BY <1>2, <1>3, <1>5, <2>4, <3>1, SMT
      <3> QED BY <2>4, <3>2
    <2> QED BY <2>2, <2>3, <2>4 DEF StepOK, EntryOK
  <1>11. job'.uid <= lastUid' /\ Signed(job', op') /\ Mounts(job', op')
    <2>1. job.uid <= lastUid /\ Signed(job, op) /\ Mounts(job, op)
      BY <1>1 DEF Inv, VersionsOK, SignedOrFlagged, JobMountsBackups
    <2>2. CASE job'.uid = job.uid /\ job'.spec = job.spec /\ job'.refs = job.refs
      <3>1. Signed(job, op') /\ Mounts(job, op')
        BY <1>2, <1>3, <1>4, <2>1, SignedKept, MountsKept
      <3>2. job.uid <= lastUid'
        BY <1>2, <1>3, <1>5, <2>1, SMT
      <3> QED BY <2>2, <3>1, <3>2 DEF Signed, Mounts, BackedUp
    <2>3. CASE job'.uid = 0
      BY <1>3, <2>3, SMT DEF Signed, Mounts
    <2>4. CASE op' = op /\ Signed(job', op) /\ Mounts(job', op) /\ job'.uid <= lastUid
      <3>1. job'.uid \in Nat
        BY SMT DEF TypeOK, Jobs
      <3>2. job'.uid <= lastUid'
        BY <1>2, <1>3, <1>5, <2>4, <3>1, SMT
      <3> QED BY <2>4, <3>2
    <2> QED BY <2>2, <2>3, <2>4 DEF StepOK, JobOK
  <1>12. VersionsOK'
    BY <1>7, <1>9, <1>10, <1>11 DEF VersionsOK
  <1>13. \A q \in Replicas : StageOK(pass'[q].at, pass'[q].ops)
    BY DEF StepOK, WorkerOK
  <1> QED BY <1>10, <1>11, <1>12, <1>13 DEF Inv, SignedOrFlagged, JobMountsBackups

\* The pass of p returns.
LEMMA ReturnOK ==
    ASSUME Inv, NEW p \in Replicas, NEW again, Return(p, again)
    PROVE  WorkerOK
  <1>1. cache' = cache /\ pass' = [pass EXCEPT ![p] = Idle]
    BY DEF Return
  <1>2. pass \in [Replicas -> Passes]
    BY DEF Inv, TypeOK
  <1>3. Idle.at = "idle" /\ Idle.ops = NoOperation
    BY Zenon DEF Idle
  <1>4. StageOK(Idle.at, Idle.ops)
    BY <1>3 DEF StageOK
  <1>5. pass'[p] = Idle /\ \A q \in Replicas : q # p => pass'[q] = pass[q]
    BY <1>1, <1>2
  <1> QED BY <1>1, <1>3, <1>4, <1>5, Zenon DEF WorkerOK, Inv

\* The pass of p goes on to a step that suits its snapshot; what else it
\* remembers does not matter.
LEMMA ContinueOK ==
    ASSUME Inv, NEW p \in Replicas, NEW s, StageOK(s, pass[p].ops),
           cache' = cache,
           pass'[p].at = s, pass'[p].ops = pass[p].ops,
           \A q \in Replicas : q # p => pass'[q] = pass[q]
    PROVE  WorkerOK
  BY Zenon DEF WorkerOK, Inv

LEMMA GotoOK ==
    ASSUME Inv, NEW p \in Replicas, NEW s, StageOK(s, pass[p].ops), Goto(p, s)
    PROVE  WorkerOK
  <1>1. pass \in [Replicas -> Passes] /\ pass[p] \in Passes
    BY DEF Inv, TypeOK
  <1>2. pass' = [pass EXCEPT ![p].at = s] /\ cache' = cache
    BY DEF Goto
  <1>3. pass'[p] = [pass[p] EXCEPT !.at = s]
        /\ \A q \in Replicas : q # p => pass'[q] = pass[q]
    BY <1>1, <1>2, Zenon
  <1>4. pass'[p].at = s /\ pass'[p].ops = pass[p].ops
    BY <1>1, <1>3, Zenon DEF Passes
  <1> QED BY <1>2, <1>3, <1>4, ContinueOK

LEMMA FreshSnapshot ==
    ASSUME Inv, NEW p \in Replicas, Fresh(p)
    PROVE  Snapshot(p) = op
  BY Zenon DEF Inv, VersionsOK, IsVersion, Fresh, Snapshot

\* An update that keeps what is recorded, and the final status, moves the object.
LEMMA UpdateOK ==
    ASSUME Inv, NEW p \in Replicas, NEW m \in Operations, Update(p, m),
           UNCHANGED lastUid,
           Fresh(p) => /\ m.uid = op.uid /\ m.rv = op.rv
                       /\ Keeps(op, m)
                       /\ Finished(op) => m.status = op.status
                       /\ BackedUp(m) => m.named
    PROVE  Moves(op, lastUid, op', lastUid')
  <1>1. CASE ~Fresh(p)
    BY <1>1 DEF Update, Moves
  <1>2. CASE Fresh(p)
    <2>1. op' = [m EXCEPT !.rv = m.rv + 1]
      BY <1>2 DEF Update
    <2>2. /\ op'.rv = m.rv + 1
          /\ op'.uid = m.uid /\ op'.status = m.status
          /\ op'.digest = m.digest /\ op'.refs = m.refs /\ op'.entry = m.entry
          /\ op'.jobRef = m.jobRef /\ op'.modified = m.modified
          /\ op'.named = m.named
      BY <2>1, Zenon DEF Operations
    <2>3. Keeps(op, op') /\ (BackedUp(op') => op'.named)
      BY <1>2, <2>2 DEF Keeps, BackedUp
    <2> QED BY <1>2, <2>2, <2>3 DEF Moves, Fresh
  <1> QED BY <1>1, <1>2

LEMMA UpdateAndReturnOK ==
    ASSUME Inv, NEW p \in Replicas, NEW m \in Operations, UpdateAndReturn(p, m),
           Fresh(p) => /\ m.uid = op.uid /\ m.rv = op.rv
                       /\ Keeps(op, m)
                       /\ Finished(op) => m.status = op.status
                       /\ BackedUp(m) => m.named
    PROVE  StepOK
  <1>1. Update(p, m) /\ Return(p, TRUE) /\ UNCHANGED <<lastUid, job, entry>>
    BY DEF UpdateAndReturn, workload
  <1>2. Moves(op, lastUid, op', lastUid')
    BY <1>1, UpdateOK
  <1>3. WorkerOK
    BY <1>1, ReturnOK
  <1> QED BY <1>1, <1>2, <1>3 DEF StepOK, EntryOK, JobOK

\* A step that leaves the object, its script and its job alone.
LEMMA ReadOK ==
    ASSUME WorkerOK, UNCHANGED <<op, lastUid, job, entry>>
    PROVE  StepOK
  BY DEF StepOK, EntryOK, JobOK, Moves

\* What the invariant says of the snapshot of a pass.
LEMMA SnapshotFacts ==
    ASSUME Inv, NEW p \in Replicas
    PROVE  /\ Snapshot(p) \in Operations
           /\ IsVersion(Snapshot(p), op, lastUid)
           /\ StageOK(pass[p].at, Snapshot(p))
           /\ pass \in [Replicas -> Passes]
           /\ op \in Operations /\ lastUid \in Nat
           /\ BackedUp(op) => op.named
           /\ Fresh(p) => Snapshot(p) = op
  <1>1. Snapshot(p) \in Operations
    BY SnapshotType DEF Inv
  <1>2. Fresh(p) => Snapshot(p) = op
    BY FreshSnapshot
  <1>3. op \in Operations /\ lastUid \in Nat /\ pass \in [Replicas -> Passes]
    BY DEF Inv, TypeOK
  <1> QED BY <1>1, <1>2, <1>3, Zenon DEF Inv, VersionsOK, IsVersion, Snapshot

LEMMA NextStageOK ==
    ASSUME NEW m, ~Finished(m)
    PROVE  StageOK(NextStage(m), m)
  BY SMT DEF NextStage, StageOK

\* A script or a job made from a signed snapshot suits the stored object.
LEMMA SnapshotSigned ==
    ASSUME NEW m \in Operations, NEW o \in Operations, NEW u \in Nat,
           IsVersion(m, o, u), m.digest # None, m.modified \/ compareDigest(m),
           m.uid = o.uid, o.uid # 0
    PROVE  o.digest = CalSalt(m.spec) \/ o.modified
  BY Zenon DEF IsVersion, Keeps, compareDigest

\* A pass that reads something remembers it and goes on.
LEMMA PassMoves ==
    ASSUME NEW f \in [Replicas -> Passes], NEW p \in Replicas, NEW s, NEW x, NEW g,
           \/ g = [f EXCEPT ![p].at = s]
           \/ g = [f EXCEPT ![p].job = x, ![p].at = s]
           \/ g = [f EXCEPT ![p].pod = x, ![p].at = s]
           \/ g = [f EXCEPT ![p].copy = x, ![p].at = s]
           \/ g = [f EXCEPT ![p].result = x, ![p].at = s]
    PROVE  /\ g[p].at = s /\ g[p].ops = f[p].ops
           /\ \A q \in Replicas : q # p => g[q] = f[q]
  <1>0. f[p] \in Passes
    OBVIOUS
  <1>1. \/ g[p] = [f[p] EXCEPT !.at = s]
        \/ g[p] = [f[p] EXCEPT !.job = x, !.at = s]
        \/ g[p] = [f[p] EXCEPT !.pod = x, !.at = s]
        \/ g[p] = [f[p] EXCEPT !.copy = x, !.at = s]
        \/ g[p] = [f[p] EXCEPT !.result = x, !.at = s]
    BY Zenon
  <1>2. \A q \in Replicas : q # p => g[q] = f[q]
    BY Zenon
  <1>3. g[p].at = s /\ g[p].ops = f[p].ops
    BY <1>0, <1>1, Zenon DEF Passes
  <1> QED BY <1>2, <1>3

LEMMA StageStep ==
    ASSUME Inv, NEW p \in Replicas, Stage(p)
    PROVE  StepOK
  <1> DEFINE m == Snapshot(p)
  <1>0. /\ m \in Operations
        /\ IsVersion(m, op, lastUid)
        /\ StageOK(pass[p].at, m)
        /\ pass \in [Replicas -> Passes]
        /\ op \in Operations /\ lastUid \in Nat
        /\ BackedUp(op) => op.named
        /\ Fresh(p) => m = op
    BY SnapshotFacts
  <1>t. TypeOK /\ m = pass[p].ops
    BY DEF Inv, Snapshot
  <1>1. CASE Reconcile(p)
    <2>1. UNCHANGED <<op, lastUid, job, entry, cache>>
      BY <1>1 DEF Reconcile, workload
    <2>2. CASE pass' = pass
      <3>1. WorkerOK
        BY <2>1, <2>2, Zenon DEF WorkerOK, Inv
      <3> QED BY <2>1, <3>1, ReadOK
    <2>3. CASE pass' # pass
      <3> DEFINE s == IF cache[p].jobRef THEN "suspendGet" ELSE "check"
      <3>1. ~Finished(cache[p])
            /\ pass' = [pass EXCEPT ![p] = [Idle EXCEPT !.at = s, !.ops = cache[p]]]
        BY <1>1, <2>3 DEF Reconcile
      <3>2. s \in {"suspendGet", "check"}
        OBVIOUS
      <3> HIDE DEF s
      <3>3. pass'[p] = [Idle EXCEPT !.at = s, !.ops = cache[p]]
            /\ \A q \in Replicas : q # p => pass'[q] = pass[q]
        BY <1>0, <3>1, Zenon
      <3>4. pass'[p].at = s /\ pass'[p].ops = cache[p]
        BY <3>3, Zenon DEF Idle
      <3>5. StageOK(s, cache[p])
        BY <3>1, <3>2, SMT DEF StageOK
      <3>6. WorkerOK
        BY <2>1, <3>3, <3>4, <3>5, Zenon DEF WorkerOK, Inv
      <3> QED BY <2>1, <3>6, ReadOK
    <2> QED BY <2>2, <2>3
  <1>2. CASE SuspendGetJob(p)
    <2>1. UNCHANGED <<op, lastUid, job, entry, cache>> /\ pass[p].at = "suspendGet"
      BY <1>2 DEF SuspendGetJob, At, workload
    <2>2. PICK s \in {"check", "suspendList"} :
            \/ pass' = [pass EXCEPT ![p].at = s]
            \/ pass' = [pass EXCEPT ![p].job = job.id, ![p].at = s]
      BY <1>2, Zenon DEF SuspendGetJob
    <2>3. StageOK(s, m)
      BY <1>0, <2>1, SMT DEF StageOK
    <2>4. /\ pass'[p].at = s /\ pass'[p].ops = m
          /\ \A q \in Replicas : q # p => pass'[q] = pass[q]
      <3>1. CASE pass' = [pass EXCEPT ![p].at = s]
        BY <1>0, <1>t, <3>1, PassMoves
      <3>2. ASSUME NEW x, pass' = [pass EXCEPT ![p].job = x, ![p].at = s]
            PROVE  /\ pass'[p].at = s /\ pass'[p].ops = m
                   /\ \A q \in Replicas : q # p => pass'[q] = pass[q]
        BY <1>0, <1>t, <3>2, PassMoves
      <3> QED BY <2>2, <3>1, <3>2
    <2> QED BY <1>t, <2>1, <2>3, <2>4, ContinueOK, ReadOK
  <1>3. CASE SuspendListPods(p)
    <2>1. UNCHANGED <<op, lastUid, job, entry, cache>> /\ pass[p].at = "suspendList"
      BY <1>3 DEF SuspendListPods, Goto, At, workload
    <2>2. PICK s \in {"annotate", "suspend", "check"} :
            \/ pass' = [pass EXCEPT ![p].at = s]
            \/ \E k \in job.pods : pass' = [pass EXCEPT ![p].pod = k, ![p].at = s]
      <3>1. CASE Goto(p, "check")
        BY <3>1, Zenon DEF Goto
      <3>2. CASE ~Goto(p, "check")
        <4>1. PICK k \in job.pods :
                pass' = [pass EXCEPT ![p].pod = k,
                           ![p].at = IF m.actor = 0 THEN "annotate"
                                     ELSE IF m.actor # k THEN "suspend"
                                     ELSE "check"]
          BY <1>3, <3>2, Zenon DEF SuspendListPods
        <4>2. (IF m.actor = 0 THEN "annotate"
               ELSE IF m.actor # k THEN "suspend" ELSE "check")
                 \in {"annotate", "suspend", "check"}
          OBVIOUS
        <4> QED BY <4>1, <4>2, Zenon
      <3> QED BY <3>1, <3>2
    <2>3. StageOK(s, m)
      BY <1>0, <2>1, SMT DEF StageOK
    <2>4. /\ pass'[p].at = s /\ pass'[p].ops = m
          /\ \A q \in Replicas : q # p => pass'[q] = pass[q]
      <3>1. CASE pass' = [pass EXCEPT ![p].at = s]
        BY <1>0, <1>t, <3>1, PassMoves
      <3>2. ASSUME NEW x, pass' = [pass EXCEPT ![p].pod = x, ![p].at = s]
            PROVE  /\ pass'[p].at = s /\ pass'[p].ops = m
                   /\ \A q \in Replicas : q # p => pass'[q] = pass[q]
        BY <1>0, <1>t, <3>2, PassMoves
      <3> QED BY <2>2, <3>1, <3>2
    <2> QED BY <1>t, <2>1, <2>3, <2>4, ContinueOK, ReadOK
  <1>4. CASE Annotate(p)
    <2> DEFINE n == [m EXCEPT !.actor = pass[p].pod]
    <2>1. n \in Operations
      BY <1>0, <1>t, SnapshotType, ExceptType
    <2>2. Fresh(p) => /\ n.uid = op.uid /\ n.rv = op.rv /\ n.status = op.status
                      /\ Keeps(op, n) /\ (BackedUp(n) => n.named)
      BY <1>0, Zenon DEF Operations, Keeps, BackedUp
    <2> QED BY <1>4, <2>1, <2>2, UpdateAndReturnOK DEF Annotate
  <1>5. CASE SuspendJob(p)
    <2>1. Return(p, TRUE) /\ UNCHANGED <<op, lastUid, entry>>
      BY <1>5 DEF SuspendJob
    <2>2. job'.uid = job.uid /\ job'.spec = job.spec /\ job'.refs = job.refs
      BY <1>t, <1>5, Zenon DEF SuspendJob, TypeOK, Jobs
    <2> QED BY <2>1, <2>2, ReturnOK DEF StepOK, EntryOK, JobOK, Moves
  <1>6. CASE Check(p)
    <2>1. UNCHANGED <<op, lastUid, job, entry>> /\ pass[p].at = "check"
      BY <1>6 DEF Check, At, workload
    <2>2. ~Finished(m)
      BY <1>0, <2>1, SMT DEF StageOK
    <2>3. StageOK("fail", m) /\ StageOK(NextStage(m), m)
      BY <2>2, NextStageOK, SMT DEF StageOK
    <2>4. WorkerOK
      BY <1>t, <1>6, <2>3, ReturnOK, GotoOK DEF Check
    <2> QED BY <2>1, <2>4, ReadOK
  <1>7. CASE FailOps(p)
    <2> DEFINE n == [m EXCEPT !.status = "Failed"]
    <2>1. n \in Operations
      BY <1>0, ExceptType DEF Statuses
    <2>2. ~Finished(m)
      BY <1>0, <1>7, SMT DEF StageOK, FailOps, At
    <2>3. Fresh(p) => /\ n.uid = op.uid /\ n.rv = op.rv /\ ~Finished(op)
                      /\ Keeps(op, n) /\ (BackedUp(n) => n.named)
      BY <1>0, <2>2, Zenon DEF Operations, Keeps, BackedUp
    <2>4. Update(p, n) /\ Return(p, FALSE) /\ UNCHANGED <<lastUid, job, entry>>
      BY <1>7 DEF FailOps, workload
    <2>5. Moves(op, lastUid, op', lastUid')
      BY <2>1, <2>3, <2>4, UpdateOK
    <2> QED BY <2>4, <2>5, ReturnOK DEF StepOK, EntryOK, JobOK
  <1>8. CASE UpdateOperationOwnReferenceForCluster(p)
    <2> DEFINE n == [m EXCEPT !.owned = TRUE]
    <2>1. n \in Operations
      BY <1>0, ExceptType
    <2>2. Fresh(p) => /\ n.uid = op.uid /\ n.rv = op.rv /\ n.status = op.status
                      /\ Keeps(op, n) /\ (BackedUp(n) => n.named)
      BY <1>0, Zenon DEF Operations, Keeps, BackedUp
    <2> QED BY <1>8, <2>1, <2>2, UpdateAndReturnOK DEF UpdateOperationOwnReferenceForCluster
  <1>9. CASE UpdateClusterOpsStatusDigest(p)
    <2> DEFINE n == [m EXCEPT !.digest = CalSalt(m.spec)]
    <2>1. n \in Operations
      <3>1. m.spec \in Specs
        BY <1>0 DEF Operations
      <3>2. CalSalt(m.spec) \in Salts
        BY <3>1, CalSaltType
      <3> QED BY <1>0, <3>2, ExceptType
    <2>2. m.digest = None
      BY <1>0, <1>9, SMT DEF StageOK, UpdateClusterOpsStatusDigest, At
    <2>3. Fresh(p) => /\ n.uid = op.uid /\ n.rv = op.rv /\ n.status = op.status
                      /\ Keeps(op, n) /\ (BackedUp(n) => n.named)
      BY <1>0, <2>2, Zenon DEF Operations, Keeps, BackedUp
    <2> QED BY <1>9, <2>1, <2>3, UpdateAndReturnOK DEF UpdateClusterOpsStatusDigest
  <1>10. CASE UpdateStatusHasModified(p)
    <2> DEFINE n == [m EXCEPT !.modified = TRUE]
    <2>1. n \in Operations
      BY <1>0, ExceptType
    <2>2. Fresh(p) => /\ n.uid = op.uid /\ n.rv = op.rv /\ n.status = op.status
                      /\ Keeps(op, n) /\ (BackedUp(n) => n.named)
      BY <1>0, Zenon DEF Operations, Keeps, BackedUp
    <2> QED BY <1>10, <2>1, <2>2, UpdateAndReturnOK DEF UpdateStatusHasModified
  <1>11. CASE CopyInput(p)
    <2>1. UNCHANGED <<op, lastUid, job, entry, cache>> /\ pass[p].at = "copy"
      BY <1>11 DEF CopyInput, Return, At, workload
    <2>2. CASE Return(p, TRUE)
      BY <2>1, <2>2, ReturnOK, ReadOK
    <2>3. CASE ~Return(p, TRUE)
      <3>1. /\ pass'[p].at = "copyRecord" /\ pass'[p].ops = m
            /\ \A q \in Replicas : q # p => pass'[q] = pass[q]
        <4>1. \E c : pass' = [pass EXCEPT ![p].copy = c, ![p].at = "copyRecord"]
          BY <1>11, <2>3, Zenon DEF CopyInput
        <4> QED BY <1>0, <1>t, <4>1, PassMoves
      <3>2. StageOK("copyRecord", m)
        BY <1>0, <2>1, SMT DEF StageOK
      <3> QED BY <1>t, <2>1, <3>1, <3>2, ContinueOK, ReadOK
    <2> QED BY <2>2, <2>3
  <1>12. CASE RecordCopy(p)
    <2> DEFINE n == [m EXCEPT !.refs[NextInput(m)] = pass[p].copy, !.named = TRUE]
    <2>1. n \in Operations
      BY <1>0, <1>t, SnapshotType, ExceptType
    <2>2. ~BackedUp(m)
      BY <1>0, <1>12, SMT DEF StageOK, RecordCopy, At
    <2>3. m.refs[NextInput(m)] = None
      BY <2>2, SMT DEF BackedUp, NextInput, DataKinds
    <2>4. /\ n.uid = m.uid /\ n.rv = m.rv /\ n.status = m.status
          /\ n.digest = m.digest /\ n.entry = m.entry /\ n.jobRef = m.jobRef
          /\ n.modified = m.modified /\ n.named = TRUE
      BY <1>0, Zenon DEF Operations
    <2>5. n.refs = [m.refs EXCEPT ![NextInput(m)] = pass[p].copy]
      BY <1>0, Zenon DEF Operations
    <2>6. \A d \in DataKinds : m.refs[d] # None => n.refs[d] = m.refs[d]
      <3>1. m.refs \in [DataKinds -> Copies \cup {None}]
        BY <1>0 DEF Operations
      <3> QED BY <2>3, <2>5, <3>1, Zenon
    <2>7. Keeps(m, n)
      BY <2>4, <2>6 DEF Keeps
    <2> HIDE DEF n
    <2>8. Fresh(p) => /\ n.uid = op.uid /\ n.rv = op.rv /\ n.status = op.status
                      /\ Keeps(op, n) /\ (BackedUp(n) => n.named)
      BY <1>0, <2>4, <2>7
    <2>9. UpdateAndReturn(p, n)
      BY <1>12 DEF RecordCopy, n
    <2> QED BY <2>1, <2>8, <2>9, UpdateAndReturnOK DEF n
  <1>13. CASE RejectArgs(p)
    <2> DEFINE n == [m EXCEPT !.status = "Failed"]
    <2>1. n \in Operations
      BY <1>0, ExceptType DEF Statuses
    <2>2. ~Finished(m)
      BY <1>0, <1>13, SMT DEF StageOK, RejectArgs, At
    <2>3. Fresh(p) => /\ n.uid = op.uid /\ n.rv = op.rv /\ ~Finished(op)
                      /\ Keeps(op, n) /\ (BackedUp(n) => n.named)
      BY <1>0, <2>2, Zenon DEF Operations, Keeps, BackedUp
    <2> QED BY <1>13, <2>1, <2>3, UpdateAndReturnOK DEF RejectArgs
  <1>14. CASE CreateEntryPointShellConfigMap(p)
    <2>1. /\ UNCHANGED <<op, lastUid, job>> /\ pass[p].at = "entry"
          /\ entry' = NewEntrypoint(m)
          /\ Goto(p, "entryRecord")
      BY <1>14 DEF CreateEntryPointShellConfigMap, At
    <2>2. StageOK("entryRecord", m)
          /\ m.digest # None /\ (m.modified \/ compareDigest(m))
      BY <1>0, <2>1, SMT DEF StageOK
    <2>3. WorkerOK
      BY <1>t, <2>1, <2>2, GotoOK
    <2>4. entry'.uid = m.uid /\ entry'.spec = m.spec
      BY <2>1 DEF NewEntrypoint
    <2>5. Signed(entry', op)
      BY <1>0, <2>2, <2>4, SnapshotSigned DEF Signed
    <2>6. entry'.uid <= lastUid
      BY <1>0, <2>4 DEF IsVersion
    <2> QED BY <2>1, <2>3, <2>5, <2>6 DEF StepOK, EntryOK, JobOK, Moves
  <1>15. CASE RecordEntryPoint(p)
    <2> DEFINE n == [m EXCEPT !.entry = TRUE, !.named = TRUE]
    <2>1. n \in Operations
      BY <1>0, ExceptType
    <2>2. Fresh(p) => /\ n.uid = op.uid /\ n.rv = op.rv /\ n.status = op.status
                      /\ Keeps(op, n) /\ (BackedUp(n) => n.named)
      BY <1>0, Zenon DEF Operations, Keeps, BackedUp
    <2> QED BY <1>15, <2>1, <2>2, UpdateAndReturnOK DEF RecordEntryPoint
  <1>16. CASE GetJob(p)
    <2>1. UNCHANGED <<op, lastUid, job, entry>> /\ pass[p].at = "job"
      BY <1>16 DEF GetJob, At, workload
    <2>2. StageOK("jobRecord", m) /\ StageOK("jobCreate", m)
      BY <1>0, <2>1, SMT DEF StageOK
    <2>3. WorkerOK
      BY <1>t, <1>16, <2>2, ReturnOK, GotoOK DEF GetJob
    <2> QED BY <2>1, <2>3, ReadOK
  <1>17. CASE CreateJob(p)
    <2>1. UNCHANGED <<op, lastUid, entry>> /\ pass[p].at = "jobCreate"
      BY <1>17 DEF CreateJob, At
    <2>2. /\ StageOK("jobRecord", m) /\ BackedUp(m) /\ m.entry
          /\ m.digest # None /\ (m.modified \/ compareDigest(m))
      BY <1>0, <2>1, SMT DEF StageOK
    <2>3. WorkerOK
      BY <1>t, <1>17, <2>2, ReturnOK, GotoOK DEF CreateJob
    <2>4. JobOK
      <3>1. CASE job' = job
        BY <3>1 DEF JobOK
      <3>2. ASSUME NEW i, job' = NewJob(i, m) PROVE JobOK
        <4>1. job'.uid = m.uid /\ job'.spec = m.spec /\ job'.refs = m.refs
          BY <3>2 DEF NewJob
        <4>2. Signed(job', op)
          BY <1>0, <2>2, <4>1, SnapshotSigned DEF Signed
        <4>3. job'.uid <= lastUid
          BY <1>0, <4>1 DEF IsVersion
        <4>4. Mounts(job', op)
          <5> SUFFICES ASSUME m.uid # 0, m.uid = op.uid
                       PROVE  BackedUp(m) /\ m.refs = op.refs /\ op.entry /\ op.named
            BY <4>1 DEF Mounts, BackedUp
          <5>1. Keeps(m, op) /\ m.named
            BY <1>0, <2>2 DEF IsVersion
          <5>2. \A d \in DataKinds : m.refs[d] = op.refs[d]
            BY <2>2, <5>1 DEF Keeps, BackedUp
          <5>3. /\ m.refs \in [DataKinds -> Copies \cup {None}]
                /\ op.refs \in [DataKinds -> Copies \cup {None}]
            BY <1>0 DEF Operations
          <5>4. m.refs = op.refs
            BY <5>2, <5>3, SameRefs
          <5> QED BY <2>2, <5>1, <5>4 DEF Keeps
        <4> QED BY <2>1, <4>2, <4>3, <4>4 DEF JobOK
      <3> QED BY <1>17, <3>1, <3>2, Zenon DEF CreateJob
    <2> QED BY <2>1, <2>3, <2>4 DEF StepOK, EntryOK, Moves
  <1>18. CASE RecordJob(p)
    <2> DEFINE n == [m EXCEPT !.jobRef = TRUE, !.status = "Running"]
    <2>1. n \in Operations
      BY <1>0, ExceptType
    <2>2. ~Finished(m)
      BY <1>0, <1>18, SMT DEF StageOK, RecordJob, At
    <2>3. Fresh(p) => /\ n.uid = op.uid /\ n.rv = op.rv /\ ~Finished(op)
                      /\ Keeps(op, n) /\ (BackedUp(n) => n.named)
      BY <1>0, <2>2, Zenon DEF Operations, Keeps, BackedUp
    <2> QED BY <1>18, <2>1, <2>3, UpdateAndReturnOK DEF RecordJob
  <1>19. CASE FetchJobStatus(p)
    <2>1. UNCHANGED <<op, lastUid, job, entry, cache>> /\ pass[p].at = "fetch"
      BY <1>19 DEF FetchJobStatus, Return, At, workload
    <2>2. CASE Return(p, TRUE)
      BY <2>1, <2>2, ReturnOK, ReadOK
    <2>3. CASE ~Return(p, TRUE)
      <3>1. /\ pass'[p].at = "result" /\ pass'[p].ops = m
            /\ \A q \in Replicas : q # p => pass'[q] = pass[q]
        <4>1. \E r : pass' = [pass EXCEPT ![p].result = r, ![p].at = "result"]
          BY <1>19, <2>3, Zenon DEF FetchJobStatus
        <4> QED BY <1>0, <1>t, <4>1, PassMoves
      <3>2. StageOK("result", m)
        BY <1>0, <2>1, SMT DEF StageOK
      <3> QED BY <1>t, <2>1, <3>1, <3>2, ContinueOK, ReadOK
    <2> QED BY <2>2, <2>3
  <1>20. CASE RecordResult(p)
    <2> DEFINE n == [m EXCEPT !.status = pass[p].result]
    <2>1. n \in Operations
      BY <1>0, <1>t, SnapshotType, ExceptType
    <2>2. ~Finished(m)
      BY <1>0, <1>20, SMT DEF StageOK, RecordResult, At
    <2>3. Fresh(p) => /\ n.uid = op.uid /\ n.rv = op.rv /\ ~Finished(op)
                      /\ Keeps(op, n) /\ (BackedUp(n) => n.named)
      BY <1>0, <2>2, Zenon DEF Operations, Keeps, BackedUp
    <2>4. Update(p, n) /\ UNCHANGED <<lastUid, job, entry, cache>>
      BY <1>20 DEF RecordResult, Return, workload
    <2>5. Moves(op, lastUid, op', lastUid')
      BY <2>1, <2>3, <2>4, UpdateOK
    <2>6. WorkerOK
      <3>1. CASE Return(p, TRUE)
        BY <3>1, ReturnOK
      <3>2. CASE ~Return(p, TRUE)
        <4>1. /\ pass'[p].at = "label" /\ pass'[p].ops = op'
              /\ \A q \in Replicas : q # p => pass'[q] = pass[q]
          <5>1. pass' = [pass EXCEPT ![p].at = "label", ![p].ops = op']
            BY <1>20, <3>2, Zenon DEF RecordResult
          <5>2. pass[p] \in Passes
            BY <1>0
          <5>3. /\ pass'[p] = [pass[p] EXCEPT !.at = "label", !.ops = op']
                /\ \A q \in Replicas : q # p => pass'[q] = pass[q]
            BY <1>0, <5>1, Zenon
          <5>4. pass'[p].at = "label" /\ pass'[p].ops = op'
            BY <5>2, <5>3, Zenon DEF Passes
          <5> QED BY <5>3, <5>4
        <4>2. StageOK("label", op')
          BY SMT DEF StageOK
        <4> QED BY <2>4, <4>1, <4>2, Zenon DEF WorkerOK, Inv
      <3> QED BY <3>1, <3>2
    <2> QED BY <2>4, <2>5, <2>6 DEF StepOK, EntryOK, JobOK
  <1>21. CASE UpdateStatusForLabel(p)
    <2> DEFINE n == [m EXCEPT !.completed = TRUE]
    <2>1. n \in Operations
      BY <1>0, ExceptType
    <2>2. Fresh(p) => /\ n.uid = op.uid /\ n.rv = op.rv /\ n.status = op.status
                      /\ Keeps(op, n) /\ (BackedUp(n) => n.named)
      BY <1>0, Zenon DEF Operations, Keeps, BackedUp
    <2>3. Update(p, n) /\ Return(p, ~Fresh(p)) /\ UNCHANGED <<lastUid, job, entry>>
      BY <1>21 DEF UpdateStatusForLabel, workload
    <2>4. Moves(op, lastUid, op', lastUid')
      BY <2>1, <2>2, <2>3, UpdateOK
    <2> QED BY <2>3, <2>4, ReturnOK DEF StepOK, EntryOK, JobOK
  <1>22. CASE UpdateOwnReferenceToClusterOps(p)
    <2> DEFINE s == IF m.jobRef THEN "fetch" ELSE "job"
    <2>1. UNCHANGED <<op, lastUid, job>> /\ pass[p].at = "references" /\ Goto(p, s)
      BY <1>22 DEF UpdateOwnReferenceToClusterOps, At
    <2>2. s \in {"fetch", "job"}
      OBVIOUS
    <2> HIDE DEF s
    <2>3. StageOK(s, m)
      BY <1>0, <2>1, <2>2, SMT DEF StageOK
    <2>4. WorkerOK
      BY <1>t, <2>1, <2>3, GotoOK
    <2>5. entry'.uid = entry.uid /\ entry'.spec = entry.spec
      BY <1>t, <1>22, Zenon DEF UpdateOwnReferenceToClusterOps, TypeOK, Entrypoints
    <2> QED BY <2>1, <2>4, <2>5 DEF StepOK, EntryOK, JobOK, Moves
  <1> QED
    BY <1>1, <1>2, <1>3, <1>4, <1>5, <1>6, <1>7, <1>8, <1>9, <1>10, <1>11, <1>12,
       <1>13, <1>14, <1>15, <1>16, <1>17, <1>18, <1>19, <1>20, <1>21, <1>22 DEF Stage

LEMMA NewSpecKept ==
    ASSUME Inv, NEW s \in Specs, EditSpec(s)
    PROVE  Moves(op, lastUid, op', lastUid')
  <1>1. op \in Operations /\ IsVersion(op, op, lastUid)
    BY DEF Inv, TypeOK, VersionsOK
  <1>2. op.uid # 0 /\ op' = [op EXCEPT !.spec = s, !.rv = op.rv + 1] /\ lastUid' = lastUid
    BY DEF EditSpec
  <1>3. /\ op'.rv = op.rv + 1
        /\ op'.uid = op.uid /\ op'.status = op.status
        /\ op'.digest = op.digest /\ op'.refs = op.refs /\ op'.entry = op.entry
        /\ op'.jobRef = op.jobRef /\ op'.modified = op.modified
        /\ op'.named = op.named
    BY <1>1, <1>2, Zenon DEF Operations
  <1>4. Keeps(op, op') /\ (BackedUp(op') => op'.named)
    BY <1>1, <1>3, Zenon DEF Keeps, BackedUp, IsVersion
  <1> QED BY <1>2, <1>3, <1>4 DEF Moves

\* A step that leaves the passes and the caches alone.
LEMMA QuietOK ==
    ASSUME Inv, UNCHANGED <<cache, pass>>
    PROVE  WorkerOK
  BY Zenon DEF WorkerOK, Inv

LEMMA ReplicaStep ==
    ASSUME Inv, NEW p \in Replicas, Replica(p)
    PROVE  StepOK
  <1>0. StageOK(pass[p].at, pass[p].ops) /\ pass \in [Replicas -> Passes]
        /\ cache \in [Replicas -> Operations]
    BY DEF Inv, TypeOK
  <1>1. CASE Stage(p)
    BY <1>1, StageStep
  <1>2. CASE CacheSync(p)
    <2>1. UNCHANGED <<op, lastUid, job, entry, pass>>
      BY <1>2 DEF CacheSync, workload
    <2>2. \A q \in Replicas : cache'[q] \in {cache[q], op}
      BY <1>0, <1>2 DEF CacheSync
    <2>3. WorkerOK
      BY <2>1, <2>2, Zenon DEF WorkerOK, Inv
    <2> QED BY <2>1, <2>3, ReadOK
  <1>3. CASE Resync(p)
    <2>1. UNCHANGED <<op, lastUid, job, entry, cache, pass>>
      BY <1>3 DEF Resync, workload
    <2> QED BY <2>1, QuietOK, ReadOK
  <1>4. CASE FailedCall(p)
    <2>1. UNCHANGED <<op, lastUid, job, entry>>
      BY <1>4 DEF FailedCall, workload
    <2>2. \/ pass[p].at \in {"suspendGet", "suspendList"} /\ Goto(p, "check")
          \/ pass[p].at = "check" /\ Goto(p, NextStage(pass[p].ops))
          \/ Return(p, FALSE) \/ Return(p, TRUE)
      BY <1>4, Zenon DEF FailedCall, At, Snapshot
    <2>3. CASE pass[p].at \in {"suspendGet", "suspendList"} /\ Goto(p, "check")
      <3>1. StageOK("check", pass[p].ops)
        BY <1>0, <2>3, SMT DEF StageOK
      <3> QED BY <2>1, <2>3, <3>1, GotoOK, ReadOK
    <2>4. CASE pass[p].at = "check" /\ Goto(p, NextStage(pass[p].ops))
      <3>1. ~Finished(pass[p].ops)
        BY <1>0, <2>4, SMT DEF StageOK
      <3>2. StageOK(NextStage(pass[p].ops), pass[p].ops)
        BY <3>1, NextStageOK
      <3> QED BY <2>1, <2>4, <3>2, GotoOK, ReadOK
    <2>5. CASE Return(p, FALSE) \/ Return(p, TRUE)
      BY <2>1, <2>5, ReturnOK, ReadOK
    <2> QED BY <2>2, <2>3, <2>4, <2>5
  <1>5. CASE Crash(p)
    <2>1. UNCHANGED <<op, lastUid, job, entry>>
      BY <1>5 DEF Crash, workload
    <2>2. /\ \A q \in Replicas : cache'[q] \in {cache[q], op}
          /\ pass'[p] = Idle
          /\ \A q \in Replicas : q # p => pass'[q] = pass[q]
      BY <1>0, <1>5 DEF Crash
    <2>3. Idle.at = "idle" /\ Idle.ops = NoOperation
      BY Zenon DEF Idle
    <2>4. StageOK(Idle.at, Idle.ops)
      BY <2>3 DEF StageOK
    <2>5. WorkerOK
      BY <2>1, <2>2, <2>3, <2>4, Zenon DEF WorkerOK, Inv
    <2> QED BY <2>1, <2>5, ReadOK
  <1> QED BY <1>1, <1>2, <1>3, <1>4, <1>5 DEF Replica

LEMMA EnvironmentStep ==
    ASSUME Inv, Users \/ Kubernetes
    PROVE  StepOK
  <1>0. TypeOK /\ job \in Jobs
    BY DEF Inv, TypeOK
  <1>1. WorkerOK
    <2>1. UNCHANGED <<cache, pass>>
      BY Zenon DEF Users, Kubernetes, CreateOps, EditSpec, DeleteOps, RemoveInput,
         DeleteCluster, DeleteJob, StartPod, LosePod, EndJob, CollectOps,
         CollectJob, CollectEntrypoint, worker
    <2> QED BY <2>1, QuietOK
  <1>2. ASSUME NEW s \in Specs, CreateOps(s) PROVE StepOK
    <2>1. op' = NewOperation(lastUid + 1, s) /\ lastUid' = lastUid + 1
          /\ UNCHANGED <<job, entry>>
      BY <1>2 DEF CreateOps, workload
    <2>2. op'.uid = lastUid + 1
      BY <2>1 DEF NewOperation
    <2>3. ~BackedUp(op')
      BY <2>1, NothingBackedUp
    <2> QED BY <1>1, <2>1, <2>2, <2>3 DEF StepOK, Moves, EntryOK, JobOK
  <1>3. CASE DeleteOps \/ CollectOps
    BY <1>1, <1>3 DEF DeleteOps, CollectOps, workload, StepOK, Moves, EntryOK, JobOK
  <1>4. ASSUME NEW s \in Specs, EditSpec(s) PROVE StepOK
    <2>1. UNCHANGED <<job, entry>>
      BY <1>4 DEF EditSpec, workload
    <2> QED BY <1>1, <1>4, <2>1, NewSpecKept DEF StepOK, EntryOK, JobOK
  <1>5. CASE DeleteCluster \/ \E d \in DataKinds : RemoveInput(d)
    BY <1>1, <1>5, ReadOK DEF DeleteCluster, RemoveInput, workload
  <1>6. CASE DeleteJob \/ CollectJob
    <2>1. NoJob.uid = 0
      BY NoOperationFacts, Zenon DEF NoJob, NewJob
    <2> QED BY <1>1, <1>6, <2>1
            DEF DeleteJob, CollectJob, StepOK, Moves, EntryOK, JobOK
  <1>7. CASE StartPod \/ LosePod \/ \E c \in Conditions \ {"none"} : EndJob(c)
    <2>1. UNCHANGED <<op, lastUid, entry>>
      BY <1>7 DEF StartPod, LosePod, EndJob
    <2>2. job'.uid = job.uid /\ job'.spec = job.spec /\ job'.refs = job.refs
      BY <1>0, <1>7, Zenon DEF StartPod, LosePod, EndJob, Jobs
    <2> QED BY <1>1, <2>1, <2>2 DEF StepOK, Moves, EntryOK, JobOK
  <1>8. CASE CollectEntrypoint
    BY <1>1, <1>8, Zenon
       DEF CollectEntrypoint, NoEntrypoint, StepOK, Moves, EntryOK, JobOK
  <1> QED BY <1>2, <1>3, <1>4, <1>5, <1>6, <1>7, <1>8 DEF Users, Kubernetes

LEMMA NextStep ==
    ASSUME Inv, Next
    PROVE  StepOK
  BY ReplicaStep, EnvironmentStep DEF Next

LEMMA InitInv == Init => Inv
  <1> SUFFICES ASSUME Init PROVE Inv
    OBVIOUS
  <1>1. TypeOK
    BY InitTypeOK
  <1>2. op = NoOperation /\ lastUid = 0
    BY DEF Init
  <1>3. \A p \in Replicas : /\ cache[p] = NoOperation
                           /\ pass[p].at = "idle" /\ pass[p].ops = NoOperation
    BY Zenon DEF Init, Idle
  <1>4. IsVersion(NoOperation, op, lastUid)
    BY <1>1, NoOperationIsVersion DEF TypeOK
  <1>5. job.uid = 0 /\ entry.uid = 0
    BY NoOperationFacts, Zenon DEF Init, NoJob, NewJob, NoEntrypoint
  <1>6. VersionsOK
    BY <1>2, <1>3, <1>4, <1>5 DEF VersionsOK
  <1>7. SignedOrFlagged /\ JobMountsBackups
    BY <1>5 DEF SignedOrFlagged, JobMountsBackups, Signed, Mounts
  <1>8. \A p \in Replicas : StageOK(pass[p].at, pass[p].ops)
    BY <1>3 DEF StageOK
  <1> QED BY <1>1, <1>6, <1>7, <1>8 DEF Inv

LEMMA NextInv == Inv /\ [Next]_vars => Inv'
  <1> SUFFICES ASSUME Inv, [Next]_vars PROVE Inv'
    OBVIOUS
  <1>1. TypeOK'
    BY NextTypeOK DEF Inv
  <1>2. CASE Next
    BY <1>1, <1>2, NextStep, StepKeepsInv
  <1>3. CASE UNCHANGED vars
    <2>1. UNCHANGED <<op, lastUid, cache, pass, job, entry>>
      BY <1>3 DEF vars, worker, workload
    <2>2. WorkerOK
      BY <2>1, QuietOK
    <2>3. StepOK
      BY <2>1, <2>2, ReadOK
    <2> QED BY <1>1, <2>3, StepKeepsInv
  <1> QED BY <1>2, <1>3

-----------------------------------------------------------------------------
(* What the controller promises. *)

\* The inductive invariant: every snapshot, in a cache or in a pass, is an
\* earlier version of the stored object or a version of another incarnation,
\* and a pass is only at steps that its snapshot has been checked for.
THEOREM Invariant == Spec => []Inv
  <1> QED BY InitInv, NextInv, PTL DEF Spec

\* The script and the job of an incarnation come from the spec that was signed,
\* unless the incarnation is flagged as modified.
THEOREM ScriptAndJobSigned == Spec => []SignedOrFlagged
  <1>1. Inv => SignedOrFlagged
    BY DEF Inv
  <1> QED BY <1>1, Invariant, PTL

\* The job of an incarnation mounts the backups that the incarnation records.
THEOREM JobMounts == Spec => []JobMountsBackups
  <1>1. Inv => JobMountsBackups
    BY DEF Inv
  <1> QED BY <1>1, Invariant, PTL

LEMMA MovesKeep ==
    ASSUME Inv, [Next]_vars, SameOps
    PROVE  /\ Finished(op) => op'.status = op.status
           /\ Keeps(op, op')
  <1>1. op' = op => /\ Finished(op) => op'.status = op.status
                    /\ Keeps(op, op')
    BY DEF Keeps
  <1>2. CASE Next
    <2>1. Moves(op, lastUid, op', lastUid')
      BY <1>2, NextStep DEF StepOK
    <2>2. op.uid <= lastUid /\ op.uid \in Nat /\ lastUid \in Nat
      BY DEF Inv, TypeOK, VersionsOK, IsVersion, Operations
    <2>3. op'.uid # 0 /\ op'.uid # lastUid + 1
      BY <2>2, SMT DEF SameOps
    <2> QED BY <1>1, <2>1, <2>3, NoOperationFacts DEF Moves
  <1>3. CASE UNCHANGED vars
    BY <1>1, <1>3 DEF vars
  <1> QED BY <1>2, <1>3

\* A final status is final, whatever the replicas, their stale snapshots, the
\* retries, the crashes and the users do.
THEOREM StatusIsFinal == Spec => FinalStatusIsFinal
  <1>1. Inv /\ [Next]_vars => [SameOps /\ Finished(op) => op'.status = op.status]_vars
    BY MovesKeep
  <1> QED BY <1>1, Invariant, PTL DEF Spec, FinalStatusIsFinal

\* What an incarnation has recorded is never replaced or withdrawn.
THEOREM RecordsFrozen == Spec => RecordsAreFrozen
  <1>1. Inv /\ [Next]_vars => [SameOps => Keeps(op, op')]_vars
    BY MovesKeep
  <1> QED BY <1>1, Invariant, PTL DEF Spec, RecordsAreFrozen
=============================================================================
