-------------------------- MODULE LifecycleProofs --------------------------
(* The controller implements OpsLifecycle, for every value of the constants. *)
EXTENDS ClusterOpsProofs

(* What a pass x may do: two tables that the proofs below read instead of the stages. *)

\* The object n that x may make of its snapshot m.
Writes(x, m, n) ==
    /\ x.at \in {"annotate", "fail", "own", "digest", "modified", "copyRecord", "entry",
                 "entryRecord", "jobRecord", "result", "label"}
    /\ n.uid = m.uid /\ n.rv = m.rv + 1 /\ n.spec = m.spec
    /\ n.actor = IF x.at = "annotate" THEN x.pod ELSE m.actor
    /\ n.digest = IF x.at = "digest" THEN CalSalt(m.spec) ELSE m.digest
    /\ n.refs = IF x.at = "copyRecord" THEN [m.refs EXCEPT ![NextInput(m)] = x.copy]
                ELSE m.refs
    /\ n.entry = IF x.at = "entryRecord" THEN TRUE ELSE m.entry
    /\ n.named = IF x.at \in {"copyRecord", "entryRecord"} THEN TRUE ELSE m.named
    /\ n.jobRef = IF x.at = "jobRecord" THEN TRUE ELSE m.jobRef
    /\ n.status = IF x.at = "jobRecord" THEN "Running"
                  ELSE IF x.at \in {"fail", "entry"} THEN "Failed"
                  ELSE IF x.at = "result" THEN x.result ELSE m.status

\* After step s a pass with the snapshot m may go on to step t.
Follows(s, t, m) ==
    \/ s = "suspendGet" /\ t \in {"check", "suspendList"}
    \/ s = "suspendList" /\ t \in {"check", "annotate", "suspend"}
    \/ s = "check" /\ t = "fail" /\ ~(IsValidImageName(m) /\ BackedUp(m))
    \/ s = "check" /\ t = NextStage(m) /\ IsValidImageName(m)
    \/ s = "copy" /\ t = "copyRecord"
    \/ s = "entry" /\ t = "entryRecord"
    \/ s = "references" /\ t = IF m.jobRef THEN "fetch" ELSE "job"
    \/ s = "job" /\ t \in {"jobCreate", "jobRecord"}
    \/ s = "jobCreate" /\ t = "jobRecord"

\* The pass y that x may become, c being cached and o being stored afterwards.
Becomes(x, c, o, y) ==
    \/ y = x
    \/ y = Idle
    \/ /\ x.at = "idle" /\ y.ops = c /\ c.uid # 0 /\ ~Finished(c)
       /\ y.at = IF c.jobRef THEN "suspendGet" ELSE "check"
    \/ y.ops = x.ops /\ Follows(x.at, y.at, x.ops)
    \/ /\ y.ops = x.ops /\ x.at = "fetch" /\ y.at = "result"
       /\ y.result = JobStatus /\ JobStatus # "Running"
    \/ x.at = "result" /\ y.at = "label" /\ y.ops = o /\ Writes(x, x.ops, o)

\* An update is refused, or is an update of a fresh snapshot.
Written(p) == \/ op' = op
              \/ Fresh(p) /\ Snapshot(p) = op /\ Writes(pass[p], op, op')

LEMMA UpdateWritten ==
    ASSUME Inv, NEW p \in Replicas, NEW m \in Operations, Update(p, m),
           ASSUME NEW n, n = [m EXCEPT !.rv = m.rv + 1]
           PROVE  Writes(pass[p], Snapshot(p), n)
    PROVE  Written(p)
  <1>1. CASE ~Fresh(p)
    BY <1>1 DEF Update, Written
  <1>2. CASE Fresh(p)
    <2>1. op' = [m EXCEPT !.rv = m.rv + 1]
      BY <1>2 DEF Update
    <2> QED BY <1>2, <2>1, FreshSnapshot DEF Written
  <1> QED BY <1>1, <1>2

LEMMA StageWrites ==
    ASSUME Inv, NEW p \in Replicas, Stage(p)
    PROVE  Written(p) /\ lastUid' = lastUid
  <1> DEFINE m == Snapshot(p)
             x == pass[p]
  <1>0. m \in Operations /\ x \in Passes
    BY SnapshotFacts
  <1>t. /\ x.pod \in Nat /\ x.copy \in Copies \cup {None} /\ x.result \in Statuses
        /\ m.spec \in Specs /\ CalSalt(m.spec) \in Salts /\ "Failed" \in Statuses
    <2>1. x.pod \in Nat /\ x.copy \in Copies \cup {None} /\ x.result \in Statuses
      BY <1>0, SMT DEF Passes
    <2>2. m.spec \in Specs
      BY <1>0, SMT DEF Operations
    <2> QED BY <2>1, <2>2, CalSaltType DEF Statuses
  <1> HIDE DEF m, x
  <1>1. CASE Annotate(p)
    <2> DEFINE k == [m EXCEPT !.actor = x.pod]
    <2>1. k \in Operations /\ x.at = "annotate"
      BY <1>0, <1>t, <1>1, ExceptType DEF Annotate, At, x
    <2>2. ASSUME NEW n, n = [k EXCEPT !.rv = k.rv + 1] PROVE Writes(x, m, n)
      BY <1>0, <2>1, <2>2, Zenon DEF Operations, Writes
    <2>3. Update(p, k) /\ lastUid' = lastUid
      BY <1>1 DEF Annotate, UpdateAndReturn, m, x
    <2> QED BY <2>1, <2>2, <2>3, UpdateWritten DEF m, x
  <1>2. CASE UpdateOperationOwnReferenceForCluster(p)
    <2> DEFINE k == [m EXCEPT !.owned = TRUE]
    <2>1. k \in Operations /\ x.at = "own"
      BY <1>0, <1>t, <1>2, ExceptType DEF UpdateOperationOwnReferenceForCluster, At, x
    <2>2. ASSUME NEW n, n = [k EXCEPT !.rv = k.rv + 1] PROVE Writes(x, m, n)
      BY <1>0, <2>1, <2>2, Zenon DEF Operations, Writes
    <2>3. Update(p, k) /\ lastUid' = lastUid
      BY <1>2 DEF UpdateOperationOwnReferenceForCluster, UpdateAndReturn, m, x
    <2> QED BY <2>1, <2>2, <2>3, UpdateWritten DEF m, x
  <1>3. CASE UpdateClusterOpsStatusDigest(p)
    <2> DEFINE k == [m EXCEPT !.digest = CalSalt(m.spec)]
    <2>1. k \in Operations /\ x.at = "digest"
      BY <1>0, <1>t, <1>3, ExceptType DEF UpdateClusterOpsStatusDigest, At, x
    <2>2. ASSUME NEW n, n = [k EXCEPT !.rv = k.rv + 1] PROVE Writes(x, m, n)
      BY <1>0, <2>1, <2>2, Zenon DEF Operations, Writes
    <2>3. Update(p, k) /\ lastUid' = lastUid
      BY <1>3 DEF UpdateClusterOpsStatusDigest, UpdateAndReturn, m, x
    <2> QED BY <2>1, <2>2, <2>3, UpdateWritten DEF m, x
  <1>4. CASE UpdateStatusHasModified(p)
    <2> DEFINE k == [m EXCEPT !.modified = TRUE]
    <2>1. k \in Operations /\ x.at = "modified"
      BY <1>0, <1>t, <1>4, ExceptType DEF UpdateStatusHasModified, At, x
    <2>2. ASSUME NEW n, n = [k EXCEPT !.rv = k.rv + 1] PROVE Writes(x, m, n)
      BY <1>0, <2>1, <2>2, Zenon DEF Operations, Writes
    <2>3. Update(p, k) /\ lastUid' = lastUid
      BY <1>4 DEF UpdateStatusHasModified, UpdateAndReturn, m, x
    <2> QED BY <2>1, <2>2, <2>3, UpdateWritten DEF m, x
  <1>5. CASE RecordCopy(p)
    <2> DEFINE k == [m EXCEPT !.refs[NextInput(m)] = x.copy, !.named = TRUE]
    <2>1. k \in Operations /\ x.at = "copyRecord"
      BY <1>0, <1>t, <1>5, ExceptType DEF RecordCopy, At, x
    <2>2. ASSUME NEW n, n = [k EXCEPT !.rv = k.rv + 1] PROVE Writes(x, m, n)
      BY <1>0, <2>1, <2>2, Zenon DEF Operations, Writes
    <2>3. Update(p, k) /\ lastUid' = lastUid
      BY <1>5 DEF RecordCopy, UpdateAndReturn, m, x
    <2> QED BY <2>1, <2>2, <2>3, UpdateWritten DEF m, x
  <1>6. CASE RejectArgs(p)
    <2> DEFINE k == [m EXCEPT !.status = "Failed"]
    <2>1. k \in Operations /\ x.at = "entry"
      BY <1>0, <1>t, <1>6, ExceptType DEF RejectArgs, At, x
    <2>2. ASSUME NEW n, n = [k EXCEPT !.rv = k.rv + 1] PROVE Writes(x, m, n)
      BY <1>0, <2>1, <2>2, Zenon DEF Operations, Writes
    <2>3. Update(p, k) /\ lastUid' = lastUid
      BY <1>6 DEF RejectArgs, UpdateAndReturn, m, x
    <2> QED BY <2>1, <2>2, <2>3, UpdateWritten DEF m, x
  <1>7. CASE RecordEntryPoint(p)
    <2> DEFINE k == [m EXCEPT !.entry = TRUE, !.named = TRUE]
    <2>1. k \in Operations /\ x.at = "entryRecord"
      BY <1>0, <1>t, <1>7, ExceptType DEF RecordEntryPoint, At, x
    <2>2. ASSUME NEW n, n = [k EXCEPT !.rv = k.rv + 1] PROVE Writes(x, m, n)
      BY <1>0, <2>1, <2>2, Zenon DEF Operations, Writes
    <2>3. Update(p, k) /\ lastUid' = lastUid
      BY <1>7 DEF RecordEntryPoint, UpdateAndReturn, m, x
    <2> QED BY <2>1, <2>2, <2>3, UpdateWritten DEF m, x
  <1>8. CASE RecordJob(p)
    <2> DEFINE k == [m EXCEPT !.jobRef = TRUE, !.status = "Running"]
    <2>1. k \in Operations /\ x.at = "jobRecord"
      BY <1>0, <1>t, <1>8, ExceptType DEF RecordJob, At, x
    <2>2. ASSUME NEW n, n = [k EXCEPT !.rv = k.rv + 1] PROVE Writes(x, m, n)
      BY <1>0, <2>1, <2>2, Zenon DEF Operations, Writes
    <2>3. Update(p, k) /\ lastUid' = lastUid
      BY <1>8 DEF RecordJob, UpdateAndReturn, m, x
    <2> QED BY <2>1, <2>2, <2>3, UpdateWritten DEF m, x
  <1>9. CASE FailOps(p)
    <2> DEFINE k == [m EXCEPT !.status = "Failed"]
    <2>1. k \in Operations /\ x.at = "fail"
      BY <1>0, <1>t, <1>9, ExceptType DEF FailOps, At, x
    <2>2. ASSUME NEW n, n = [k EXCEPT !.rv = k.rv + 1] PROVE Writes(x, m, n)
      BY <1>0, <2>1, <2>2, Zenon DEF Operations, Writes
    <2>3. Update(p, k) /\ lastUid' = lastUid
      BY <1>9 DEF FailOps, m, x
    <2> QED BY <2>1, <2>2, <2>3, UpdateWritten DEF m, x
  <1>10. CASE RecordResult(p)
    <2> DEFINE k == [m EXCEPT !.status = x.result]
    <2>1. k \in Operations /\ x.at = "result"
      BY <1>0, <1>t, <1>10, ExceptType DEF RecordResult, At, x
    <2>2. ASSUME NEW n, n = [k EXCEPT !.rv = k.rv + 1] PROVE Writes(x, m, n)
      BY <1>0, <2>1, <2>2, Zenon DEF Operations, Writes
    <2>3. Update(p, k) /\ lastUid' = lastUid
      BY <1>10 DEF RecordResult, m, x
    <2> QED BY <2>1, <2>2, <2>3, UpdateWritten DEF m, x
  <1>11. CASE UpdateStatusForLabel(p)
    <2> DEFINE k == [m EXCEPT !.completed = TRUE]
    <2>1. k \in Operations /\ x.at = "label"
      BY <1>0, <1>t, <1>11, ExceptType DEF UpdateStatusForLabel, At, x
    <2>2. ASSUME NEW n, n = [k EXCEPT !.rv = k.rv + 1] PROVE Writes(x, m, n)
      BY <1>0, <2>1, <2>2, Zenon DEF Operations, Writes
    <2>3. Update(p, k) /\ lastUid' = lastUid
      BY <1>11 DEF UpdateStatusForLabel, m, x
    <2> QED BY <2>1, <2>2, <2>3, UpdateWritten DEF m, x
  <1>12. CASE \/ Reconcile(p)
           \/ SuspendGetJob(p)
           \/ SuspendListPods(p)
           \/ SuspendJob(p)
           \/ Check(p)
           \/ CopyInput(p)
           \/ CreateEntryPointShellConfigMap(p)
           \/ UpdateOwnReferenceToClusterOps(p)
           \/ GetJob(p)
           \/ CreateJob(p)
           \/ FetchJobStatus(p)
    BY <1>12 DEF Written, Reconcile, SuspendGetJob, SuspendListPods, SuspendJob, Check, CopyInput, CreateEntryPointShellConfigMap, UpdateOwnReferenceToClusterOps, GetJob, CreateJob, FetchJobStatus
  <1> QED
    BY <1>1, <1>2, <1>3, <1>4, <1>5, <1>6, <1>7, <1>8, <1>9, <1>10, <1>11, <1>12 DEF Stage

\* A pass returns, or goes on with its snapshot.
LEMMA ReturnBecomes ==
    ASSUME Inv, NEW p \in Replicas, NEW again, NEW o, Return(p, again)
    PROVE  Becomes(pass[p], cache[p], o, pass'[p])
  <1>1. pass'[p] = Idle
    BY SnapshotFacts DEF Return
  <1> QED BY <1>1 DEF Becomes

LEMMA OneField ==
    ASSUME NEW f \in [Replicas -> Passes], NEW p \in Replicas, NEW s, NEW v, NEW g
    PROVE  /\ g = [f EXCEPT ![p].at = s] => g[p].at = s /\ g[p].ops = f[p].ops
           /\ g = [f EXCEPT ![p].job = v, ![p].at = s] => g[p].at = s /\ g[p].ops = f[p].ops
           /\ g = [f EXCEPT ![p].pod = v, ![p].at = s] => g[p].at = s /\ g[p].ops = f[p].ops
           /\ g = [f EXCEPT ![p].copy = v, ![p].at = s] => g[p].at = s /\ g[p].ops = f[p].ops
  <1>1. ASSUME g = [f EXCEPT ![p].at = s]
        PROVE  g[p].at = s /\ g[p].ops = f[p].ops
    BY <1>1, PassMoves
  <1>2. ASSUME g = [f EXCEPT ![p].job = v, ![p].at = s]
        PROVE  g[p].at = s /\ g[p].ops = f[p].ops
    BY <1>2, PassMoves
  <1>3. ASSUME g = [f EXCEPT ![p].pod = v, ![p].at = s]
        PROVE  g[p].at = s /\ g[p].ops = f[p].ops
    BY <1>3, PassMoves
  <1>4. ASSUME g = [f EXCEPT ![p].copy = v, ![p].at = s]
        PROVE  g[p].at = s /\ g[p].ops = f[p].ops
    BY <1>4, PassMoves
  <1> QED BY <1>1, <1>2, <1>3, <1>4

LEMMA GotoBecomes ==
    ASSUME Inv, NEW p \in Replicas, NEW s, NEW o,
           \/ Goto(p, s)
           \/ \E v : \/ pass' = [pass EXCEPT ![p].job = v, ![p].at = s]
                   \/ pass' = [pass EXCEPT ![p].pod = v, ![p].at = s]
                   \/ pass' = [pass EXCEPT ![p].copy = v, ![p].at = s],
           Follows(pass[p].at, s, pass[p].ops)
    PROVE  Becomes(pass[p], cache[p], o, pass'[p])
  <1>0. pass \in [Replicas -> Passes]
    BY SnapshotFacts
  <1>1. \/ pass' = [pass EXCEPT ![p].at = s]
        \/ \E v : \/ pass' = [pass EXCEPT ![p].job = v, ![p].at = s]
                \/ pass' = [pass EXCEPT ![p].pod = v, ![p].at = s]
                \/ pass' = [pass EXCEPT ![p].copy = v, ![p].at = s]
    BY DEF Goto
  <1> DEFINE Moved(f) == f[p].at = s /\ f[p].ops = pass[p].ops
             A == [pass EXCEPT ![p].at = s]
             J(v) == [pass EXCEPT ![p].job = v, ![p].at = s]
             P(v) == [pass EXCEPT ![p].pod = v, ![p].at = s]
             C(v) == [pass EXCEPT ![p].copy = v, ![p].at = s]
  <1>2. \A v : Moved(A) /\ Moved(J(v)) /\ Moved(P(v)) /\ Moved(C(v))
    BY <1>0, OneField
  <1>3. pass' = A \/ \E v : pass' \in {J(v), P(v), C(v)}
    BY <1>1
  <1> HIDE DEF A, J, P, C, Moved
  <1>4. Moved(pass')
    BY ONLY <1>2, <1>3
  <1> QED BY <1>4 DEF Becomes, Moved

LEMMA MissingNotBackedUp == ASSUME NEW m, MissingInputs(m) # {} PROVE ~BackedUp(m)
  BY DEF MissingInputs, BackedUp

LEMMA StageBecomes ==
    ASSUME Inv, NEW p \in Replicas, Stage(p) \/ FailedCall(p)
    PROVE  Becomes(pass[p], cache[p], op', pass'[p])
  <1> DEFINE m == pass[p].ops
  <1>0. pass \in [Replicas -> Passes] /\ Snapshot(p) = m
    BY SnapshotFacts DEF Snapshot
  <1>1. CASE Reconcile(p)
    <2>1. CASE pass' = pass
      BY <2>1 DEF Becomes
    <2>2. CASE pass' # pass
      <3> DEFINE s == IF cache[p].jobRef THEN "suspendGet" ELSE "check"
      <3>1. /\ cache[p].uid # 0 /\ ~Finished(cache[p]) /\ pass[p].at = "idle"
            /\ pass' = [pass EXCEPT ![p] = [Idle EXCEPT !.at = s, !.ops = cache[p]]]
        BY <1>1, <2>2 DEF Reconcile, At
      <3> HIDE DEF s
      <3>2. pass'[p] = [Idle EXCEPT !.at = s, !.ops = cache[p]]
        BY <1>0, <3>1, Zenon
      <3>3. pass'[p].at = s /\ pass'[p].ops = cache[p]
        BY <3>2, Zenon DEF Idle
      <3> QED BY <3>1, <3>3 DEF Becomes, s
    <2> QED BY <2>1, <2>2
  <1>2. CASE SuspendGetJob(p)
    <2>1. pass[p].at = "suspendGet"
      BY <1>2 DEF SuspendGetJob, At
    <2>2. \/ pass' = [pass EXCEPT ![p].at = "check"]
          \/ pass' = [pass EXCEPT ![p].job = job.id, ![p].at = "suspendList"]
      BY <1>2, Zenon DEF SuspendGetJob
    <2>3. /\ Follows("suspendGet", "check", m)
          /\ Follows("suspendGet", "suspendList", m)
      BY DEF Follows
    <2>4. CASE pass' = [pass EXCEPT ![p].at = "check"]
      <3>1. pass'[p].at = "check" /\ pass'[p].ops = m
        BY <1>0, <2>4, PassMoves
      <3> QED BY <2>1, <2>3, <3>1 DEF Becomes
    <2>5. CASE pass' = [pass EXCEPT ![p].job = job.id, ![p].at = "suspendList"]
      BY <2>1, <2>3, <2>5, GotoBecomes
    <2> QED BY <2>2, <2>4, <2>5
  <1>3. CASE SuspendListPods(p)
    <2>1. pass[p].at = "suspendList"
      BY <1>3 DEF SuspendListPods, At
    <2>2. CASE Goto(p, "check")
      BY <1>0, <2>1, <2>2, GotoBecomes DEF Follows
    <2>3. CASE ~Goto(p, "check")
      <3>1. PICK k \in job.pods :
              pass' = [pass EXCEPT ![p].pod = k,
                         ![p].at = IF m.actor = 0 THEN "annotate"
                                   ELSE IF m.actor # k THEN "suspend" ELSE "check"]
        BY <1>0, <1>3, <2>3, Zenon DEF SuspendListPods
      <3> DEFINE s == IF m.actor = 0 THEN "annotate"
                      ELSE IF m.actor # k THEN "suspend" ELSE "check"
      <3>2. Follows("suspendList", s, m)
        BY DEF Follows
      <3> HIDE DEF s
      <3>3. pass' = [pass EXCEPT ![p].pod = k, ![p].at = s]
        BY <3>1 DEF s
      <3> QED BY <2>1, <3>2, <3>3, GotoBecomes
    <2> QED BY <2>2, <2>3
  <1>4. CASE Check(p)
    <2>1. pass[p].at = "check"
      BY <1>4 DEF Check, At
    <2>2. CASE Return(p, TRUE)
      BY <2>2, ReturnBecomes
    <2>3. CASE Goto(p, "fail") /\ ~(IsValidImageName(m) /\ BackedUp(m))
      BY <2>1, <2>3, GotoBecomes DEF Follows
    <2>4. CASE Goto(p, NextStage(m)) /\ IsValidImageName(m)
      BY <2>1, <2>4, GotoBecomes DEF Follows
    <2> QED BY <1>0, <1>4, <2>2, <2>3, <2>4, MissingNotBackedUp, Zenon DEF Check
  <1>5. CASE CopyInput(p)
    <2>1. pass[p].at = "copy"
      BY <1>5 DEF CopyInput, At
    <2>2. CASE Return(p, TRUE)
      BY <2>2, ReturnBecomes
    <2>3. CASE ~Return(p, TRUE)
      <3>1. \E c : pass' = [pass EXCEPT ![p].copy = c, ![p].at = "copyRecord"]
        BY <1>5, <2>3, Zenon DEF CopyInput
      <3> QED BY <2>1, <3>1, GotoBecomes DEF Follows
    <2> QED BY <2>2, <2>3
  <1>6. CASE CreateEntryPointShellConfigMap(p)
    BY <1>6, GotoBecomes DEF CreateEntryPointShellConfigMap, At, Follows
  <1>7. CASE UpdateOwnReferenceToClusterOps(p)
    BY <1>0, <1>7, GotoBecomes DEF UpdateOwnReferenceToClusterOps, At, Follows
  <1>8. CASE GetJob(p)
    BY <1>8, ReturnBecomes, GotoBecomes DEF GetJob, At, Follows
  <1>9. CASE CreateJob(p)
    BY <1>9, ReturnBecomes, GotoBecomes DEF CreateJob, At, Follows
  <1>10. CASE FetchJobStatus(p)
    <2>1. CASE Return(p, TRUE)
      BY <2>1, ReturnBecomes
    <2>2. CASE ~Return(p, TRUE)
      <3>1. /\ pass[p].at = "fetch" /\ JobStatus # "Running"
            /\ pass' = [pass EXCEPT ![p].result = JobStatus, ![p].at = "result"]
        BY <1>10, <2>2, Zenon DEF FetchJobStatus, At
      <3>2. pass'[p] = [pass[p] EXCEPT !.result = JobStatus, !.at = "result"]
        BY <1>0, <3>1, Zenon
      <3>3. pass'[p].at = "result" /\ pass'[p].result = JobStatus /\ pass'[p].ops = m
        BY <1>0, <3>2, Zenon DEF Passes
      <3> QED BY <3>1, <3>3 DEF Becomes
    <2> QED BY <2>1, <2>2
  <1>11. CASE RecordResult(p)
    <2>1. CASE Return(p, TRUE)
      BY <2>1, ReturnBecomes
    <2>2. CASE ~Return(p, TRUE)
      <3>1. /\ Fresh(p) /\ pass[p].at = "result"
            /\ pass' = [pass EXCEPT ![p].at = "label", ![p].ops = op']
            /\ op' = [[m EXCEPT !.status = pass[p].result] EXCEPT !.rv = @ + 1]
        BY <1>0, <1>11, <2>2, Zenon DEF RecordResult, Update, At
      <3>2. pass'[p] = [pass[p] EXCEPT !.at = "label", !.ops = op']
        BY <1>0, <3>1, Zenon
      <3>3. pass'[p].at = "label" /\ pass'[p].ops = op'
        BY <1>0, <3>2, Zenon DEF Passes
      <3>4. m \in Operations
        BY <1>0, SnapshotFacts
      <3>5. Writes(pass[p], m, op')
        BY <3>1, <3>4, Zenon DEF Operations, Writes
      <3> QED BY <3>1, <3>3, <3>5 DEF Becomes
    <2> QED BY <2>1, <2>2
  <1>12. CASE FailedCall(p)
    <2>1. CASE Return(p, FALSE) \/ Return(p, TRUE)
      BY <2>1, ReturnBecomes
    <2>2. CASE pass[p].at \in {"suspendGet", "suspendList"} /\ Goto(p, "check")
      <3>1. Follows(pass[p].at, "check", m)
        BY <2>2 DEF Follows
      <3> QED BY <2>2, <3>1, GotoBecomes
    <2>3. CASE pass[p].at = "check" /\ Goto(p, NextStage(m)) /\ IsValidImageName(m)
      BY <2>3, GotoBecomes DEF Follows
    <2> QED BY <1>0, <1>12, <2>1, <2>2, <2>3, Zenon DEF FailedCall, At
  <1>13. CASE \/ Annotate(p) \/ SuspendJob(p) \/ FailOps(p)
              \/ UpdateOperationOwnReferenceForCluster(p)
              \/ UpdateClusterOpsStatusDigest(p) \/ UpdateStatusHasModified(p)
              \/ RecordCopy(p) \/ RejectArgs(p) \/ RecordEntryPoint(p) \/ RecordJob(p)
              \/ UpdateStatusForLabel(p)
    <2>1. \E again : Return(p, again)
      BY <1>13, Zenon
         DEF Annotate, SuspendJob, FailOps, UpdateOperationOwnReferenceForCluster,
             UpdateClusterOpsStatusDigest, UpdateStatusHasModified, RecordCopy, RejectArgs,
             RecordEntryPoint, RecordJob, UpdateStatusForLabel, UpdateAndReturn
    <2> QED BY <2>1, ReturnBecomes
  <1> QED
    BY <1>1, <1>2, <1>3, <1>4, <1>5, <1>6, <1>7, <1>8, <1>9, <1>10, <1>11, <1>12, <1>13
       DEF Stage

-----------------------------------------------------------------------------
(* What every step does, by those tables. *)

\* A pass is moved by its own replica only.
LEMMA OthersStay ==
    ASSUME Inv, NEW p \in Replicas, Replica(p), NEW q \in Replicas, q # p
    PROVE  pass'[q] = pass[q]
  <1>0. pass \in [Replicas -> Passes]
    BY SnapshotFacts
  <1>1. CASE Stage(p)
    <2>1. pass' = pass \/ \E x : pass' = [pass EXCEPT ![p] = x]
      <3>1. CASE \E again : Return(p, again)
        BY <3>1 DEF Return
      <3>2. CASE \E s : Goto(p, s)
        <4>1. PICK s : pass' = [pass EXCEPT ![p].at = s]
          BY <3>2 DEF Goto
        <4> QED BY <4>1
      <3>3. CASE Reconcile(p) \/ SuspendGetJob(p) \/ SuspendListPods(p) \/ CopyInput(p)
                 \/ FetchJobStatus(p) \/ RecordResult(p)
        BY <3>1, <3>2, <3>3, Zenon
           DEF Reconcile, SuspendGetJob, SuspendListPods, CopyInput, FetchJobStatus,
               RecordResult
      <3>4. CASE ~(Reconcile(p) \/ SuspendGetJob(p) \/ SuspendListPods(p) \/ CopyInput(p)
                   \/ FetchJobStatus(p) \/ RecordResult(p))
        BY <1>1, <3>1, <3>2, <3>4, Zenon
           DEF Stage, Annotate, SuspendJob, Check, FailOps,
               UpdateOperationOwnReferenceForCluster, UpdateClusterOpsStatusDigest,
               UpdateStatusHasModified, RecordCopy, RejectArgs,
               CreateEntryPointShellConfigMap, RecordEntryPoint,
               UpdateOwnReferenceToClusterOps, GetJob, CreateJob, RecordJob,
               UpdateStatusForLabel, UpdateAndReturn
      <3> QED BY <3>3, <3>4
    <2> QED BY <1>0, <2>1
  <1>2. CASE CacheSync(p) \/ Resync(p)
    BY <1>2 DEF CacheSync, Resync
  <1>3. CASE FailedCall(p)
    BY <1>0, <1>3, Zenon DEF FailedCall, Goto, Return
  <1>4. CASE Crash(p)
    BY <1>0, <1>4 DEF Crash
  <1> QED BY <1>1, <1>2, <1>3, <1>4 DEF Replica

LEMMA NextBecomes ==
    ASSUME Inv, [Next]_vars, NEW q \in Replicas
    PROVE  Becomes(pass[q], cache[q], op', pass'[q])
  <1>0. pass \in [Replicas -> Passes]
    BY SnapshotFacts
  <1>1. CASE pass'[q] = pass[q]
    BY <1>1 DEF Becomes
  <1>2. CASE pass' # pass /\ pass'[q] # pass[q]
    <2>1. Replica(q)
      <3>1. ~(Users \/ Kubernetes) /\ vars' # vars
        BY <1>2, Zenon DEF Users, Kubernetes, CreateOps, EditSpec, DeleteOps, RemoveInput,
           DeleteCluster, DeleteJob, StartPod, LosePod, EndJob, CollectOps,
           CollectJob, CollectEntrypoint, worker, vars
      <3>2. PICK p \in Replicas : Replica(p)
        BY <3>1 DEF Next
      <3> QED BY <1>2, <3>2, OthersStay
    <2>2. CASE Stage(q) \/ FailedCall(q)
      BY <2>2, StageBecomes
    <2>3. CASE Crash(q)
      BY <1>0, <2>3 DEF Crash, Becomes
    <2>4. CASE CacheSync(q) \/ Resync(q)
      BY <1>2, <2>4 DEF CacheSync, Resync
    <2> QED BY <2>1, <2>2, <2>3, <2>4 DEF Replica
  <1> QED BY <1>1, <1>2

\* What a step makes of the stored object.
Changes ==
    \/ op' = op /\ lastUid' = lastUid
    \/ /\ \E p \in Replicas : Fresh(p) /\ Snapshot(p) = op /\ Writes(pass[p], op, op')
       /\ lastUid' = lastUid
    \/ /\ op.uid = 0 /\ lastUid' = lastUid + 1
       /\ \E s \in Specs : op' = NewOperation(lastUid + 1, s)
    \/ op.uid # 0 /\ op' = NoOperation /\ lastUid' = lastUid
    \/ /\ op.uid # 0 /\ lastUid' = lastUid
       /\ \E s \in Specs : op' = [op EXCEPT !.spec = s, !.rv = op.rv + 1]

LEMMA NextChanges == ASSUME Inv, [Next]_vars PROVE Changes
  <1>1. ASSUME NEW p \in Replicas, Stage(p) PROVE Changes
    BY <1>1, StageWrites DEF Written, Changes
  <1>2. ASSUME NEW p \in Replicas, CacheSync(p) \/ Resync(p) \/ FailedCall(p) \/ Crash(p)
        PROVE  Changes
    BY <1>2 DEF CacheSync, Resync, FailedCall, Crash, Changes
  <1>3. ASSUME NEW s \in Specs, CreateOps(s) \/ EditSpec(s) PROVE Changes
    BY <1>3 DEF CreateOps, EditSpec, Changes
  <1>4. CASE DeleteOps \/ CollectOps
    BY <1>4 DEF DeleteOps, CollectOps, Changes
  <1>5. CASE Kubernetes \/ DeleteCluster \/ DeleteJob \/ \E d \in DataKinds : RemoveInput(d)
    BY <1>4, <1>5, Zenon
       DEF DeleteCluster, DeleteJob, RemoveInput, Kubernetes, StartPod, LosePod, EndJob,
           CollectJob, CollectEntrypoint, Changes
  <1>6. CASE UNCHANGED vars
    BY <1>6 DEF vars, Changes
  <1> QED BY <1>1, <1>2, <1>3, <1>4, <1>5, <1>6, Zenon DEF Next, Replica, Users

-----------------------------------------------------------------------------
(* The invariant of the refinement. *)

LEMMA NoOperationFields ==
    /\ NoOperation.uid = 0 /\ NoOperation.rv = 0
    /\ NoOperation.refs = [d \in DataKinds |-> None]
    /\ NoOperation.digest = None /\ NoOperation.entry = FALSE
    /\ NoOperation.jobRef = FALSE /\ NoOperation.status = "" /\ NoOperation.actor = 0
    /\ NoOperation.named = FALSE
  BY Zenon DEF NoOperation, NewOperation

\* The stages after the checks never ask how the job has ended.
LEMMA NextStageIs ==
    ASSUME NEW m
    PROVE  NextStage(m) \in {"own", "digest", "modified", "copy", "entry", "references"}
  BY SMT DEF NextStage

LEMMA JobStatusIs == JobStatus \in {"Running", "Succeeded", "Failed"}
  BY SMT DEF JobStatus

RunningOK(m) == /\ m.status = "Running" => BackedUp(m) /\ m.digest # None /\ m.entry
                /\ m.jobRef => m.status # ""

AsksOK(x) == /\ x.at \in {"fetch", "result"} => x.ops.jobRef
             /\ x.at = "result" => x.result \in {"Succeeded", "Failed"}

LEMMA WritesRunningOK ==
    ASSUME Inv, LifecycleInv, NEW p \in Replicas, Snapshot(p) = op, NEW o,
           Writes(pass[p], op, o)
    PROVE  RunningOK(o)
  <1> DEFINE x == pass[p]
  <1>0. StageOK(x.at, op) /\ op \in Operations /\ x.ops = op
    BY SnapshotFacts DEF Snapshot
  <1>1. RunningOK(op) /\ AsksOK(x)
    BY DEF LifecycleInv, RunningOK, AsksOK, At
  <1>2. CalSalt(op.spec) # None
    BY <1>0, CalSaltType, NamesAssumption DEF Operations
  <1> HIDE DEF x
  <1>3. /\ o.digest = IF x.at = "digest" THEN CalSalt(op.spec) ELSE op.digest
        /\ o.refs = IF x.at = "copyRecord" THEN [op.refs EXCEPT ![NextInput(op)] = x.copy]
                    ELSE op.refs
        /\ o.entry = IF x.at = "entryRecord" THEN TRUE ELSE op.entry
        /\ o.jobRef = IF x.at = "jobRecord" THEN TRUE ELSE op.jobRef
        /\ o.status = IF x.at = "jobRecord" THEN "Running"
                      ELSE IF x.at \in {"fail", "entry"} THEN "Failed"
                      ELSE IF x.at = "result" THEN x.result ELSE op.status
    BY DEF Writes, x
  <1>4. CASE x.at = "jobRecord"
    BY <1>0, <1>3, <1>4 DEF StageOK, RunningOK, BackedUp
  <1>5. CASE x.at \in {"fail", "entry", "result"}
    BY <1>1, <1>3, <1>5 DEF RunningOK, AsksOK
  <1>6. CASE x.at = "copyRecord"
    <2>1. op.status # "Running"
      BY <1>0, <1>1, <1>6 DEF StageOK, RunningOK
    <2> QED BY <1>1, <1>3, <1>6, <2>1 DEF RunningOK
  <1>7. CASE x.at \notin {"jobRecord", "fail", "entry", "result", "copyRecord"}
    BY <1>1, <1>2, <1>3, <1>7 DEF RunningOK, BackedUp
  <1> QED BY <1>4, <1>5, <1>6, <1>7

LEMMA BecomesAsksOK ==
    ASSUME NEW x, NEW c, NEW o, NEW y, AsksOK(x), Becomes(x, c, o, y)
    PROVE  AsksOK(y)
  <1>1. CASE y = x
    BY <1>1
  <1>2. CASE y = Idle
    BY <1>2, Zenon DEF Idle, AsksOK
  <1>3. CASE y.at \in {"suspendGet", "check", "label"}
    BY <1>3 DEF AsksOK
  <1>4. CASE y.ops = x.ops /\ Follows(x.at, y.at, x.ops)
    BY <1>4, NextStageIs DEF Follows, AsksOK
  <1>5. CASE /\ y.ops = x.ops /\ x.at = "fetch" /\ y.at = "result"
             /\ y.result = JobStatus /\ JobStatus # "Running"
    BY <1>5, JobStatusIs DEF AsksOK
  <1> QED BY <1>1, <1>2, <1>3, <1>4, <1>5 DEF Becomes

LEMMA ChangesRunningOK == ASSUME Inv, LifecycleInv, Changes PROVE RunningOK(op')
  <1>0. RunningOK(op) /\ op \in Operations
    BY DEF LifecycleInv, RunningOK, Inv, TypeOK
  <1>1. CASE op' = op
    BY <1>0, <1>1 DEF RunningOK
  <1>2. CASE \E p \in Replicas : Fresh(p) /\ Snapshot(p) = op /\ Writes(pass[p], op, op')
    BY <1>2, WritesRunningOK
  <1>3. CASE op' = NoOperation \/ \E s \in Specs : op' = NewOperation(lastUid + 1, s)
    <2>1. op'.status = "" /\ op'.jobRef = FALSE
      <3>1. CASE op' = NoOperation
        BY <3>1, NoOperationFields
      <3>2. ASSUME NEW s \in Specs, op' = NewOperation(lastUid + 1, s)
            PROVE  op'.status = "" /\ op'.jobRef = FALSE
        BY <3>2, Zenon DEF NewOperation
      <3> QED BY <1>3, <3>1, <3>2
    <2> QED BY <2>1 DEF RunningOK
  <1>4. CASE \E s \in Specs : op' = [op EXCEPT !.spec = s, !.rv = op.rv + 1]
    <2>1. PICK s \in Specs : op' = [op EXCEPT !.spec = s, !.rv = op.rv + 1]
      BY <1>4
    <2>2. /\ op'.refs = op.refs /\ op'.digest = op.digest /\ op'.entry = op.entry
          /\ op'.jobRef = op.jobRef /\ op'.status = op.status
      BY <1>0, <2>1, Zenon DEF Operations
    <2> QED BY <1>0, <2>2 DEF RunningOK, BackedUp
  <1> QED BY <1>1, <1>2, <1>3, <1>4 DEF Changes

LEMMA NextLifecycleInv == ASSUME Inv, LifecycleInv, [Next]_vars PROVE LifecycleInv'
  <1>1. RunningOK(op')
    BY NextChanges, ChangesRunningOK
  <1>2. ASSUME NEW p \in Replicas PROVE AsksOK(pass'[p])
    <2>1. AsksOK(pass[p])
      BY DEF LifecycleInv, AsksOK, At
    <2> QED BY <2>1, NextBecomes, BecomesAsksOK
  <1> QED BY <1>1, <1>2 DEF LifecycleInv, RunningOK, AsksOK, At, BackedUp

LEMMA InitLifecycleInv == Init => LifecycleInv
  <1> SUFFICES ASSUME Init PROVE LifecycleInv
    OBVIOUS
  <1>1. op.status = "" /\ op.jobRef = FALSE
    BY NoOperationFields DEF Init
  <1>2. \A p \in Replicas : pass[p].at = "idle"
    BY Zenon DEF Init, Idle
  <1> QED BY <1>1, <1>2 DEF LifecycleInv, At

\* What runs has recorded all of its inputs, and what has a job has been started.
THEOREM RunningIsRecorded == Spec => []LifecycleInv
  <1>1. Inv /\ LifecycleInv /\ [Next]_vars => LifecycleInv'
    BY NextLifecycleInv
  <1> QED BY <1>1, InitLifecycleInv, Invariant, PTL DEF Spec

-----------------------------------------------------------------------------
(* The refinement. *)

\* The phase of o and what it has frozen.
PhaseOf(o) == IF o.uid = 0 THEN "Absent" ELSE IF o.status = "" THEN "Pending" ELSE o.status

FrozenOf(o) == {d \in DataKinds : o.refs[d] # None}
               \cup (IF o.digest # None THEN {"digest"} ELSE {})
               \cup (IF o.entry THEN {"entrypoint"} ELSE {})
               \cup (IF o.named THEN {"label"} ELSE {})

AllInputs == DataKinds \cup {"digest", "entrypoint", "label"}

LEMMA MappingIs == Phase = PhaseOf(op) /\ Frozen = FrozenOf(op)
                   /\ Phase' = PhaseOf(op') /\ Frozen' = FrozenOf(op')
  BY DEF Phase, Frozen, Label, PhaseOf, FrozenOf

\* A step of the lifecycle, in terms of the objects o and n before and after it.
LifeStep(o, u, n, v) ==
    \/ /\ v = u /\ n.uid = o.uid
       /\ PhaseOf(n) = PhaseOf(o) /\ FrozenOf(n) = FrozenOf(o)
    \/ /\ PhaseOf(o) = "Absent" /\ v = u + 1 /\ n.uid = v
       /\ PhaseOf(n) = "Pending" /\ FrozenOf(n) = {}
    \/ /\ v = u /\ n.uid = o.uid
       /\ PhaseOf(o) = "Pending" /\ PhaseOf(n) = "Pending"
       /\ FrozenOf(o) \subseteq FrozenOf(n) /\ FrozenOf(n) \subseteq AllInputs
    \/ /\ v = u /\ n.uid = o.uid
       /\ PhaseOf(o) = "Pending" /\ FrozenOf(o) = AllInputs
       /\ PhaseOf(n) = "Running" /\ FrozenOf(n) = FrozenOf(o)
    \/ /\ v = u /\ n.uid = o.uid /\ FrozenOf(n) = FrozenOf(o)
       /\ \/ PhaseOf(o) = "Running" /\ PhaseOf(n) \in {"Succeeded", "Failed"}
          \/ PhaseOf(o) = "Pending" /\ PhaseOf(n) = "Failed"
    \/ /\ v = u /\ n.uid = 0
       /\ PhaseOf(o) # "Absent" /\ PhaseOf(n) = "Absent" /\ FrozenOf(n) = {}

LEMMA NextInputIs ==
    ASSUME NEW m, ~BackedUp(m)
    PROVE  NextInput(m) \in DataKinds /\ m.refs[NextInput(m)] = None
  BY SMT DEF BackedUp, NextInput, DataKinds

LEMMA WritesLifeStep ==
    ASSUME Inv, LifecycleInv, NEW p \in Replicas, Fresh(p), Snapshot(p) = op, NEW o,
           Writes(pass[p], op, o), NEW u
    PROVE  LifeStep(op, u, o, u)
  <1> DEFINE x == pass[p]
  <1>0. StageOK(x.at, op) /\ op \in Operations /\ x.ops = op /\ op.uid # 0
    BY SnapshotFacts DEF Snapshot, Fresh
  <1>1. RunningOK(op) /\ AsksOK(x)
    BY DEF LifecycleInv, RunningOK, AsksOK, At
  <1>2. CalSalt(op.spec) # None /\ op.status \in Statuses
        /\ op.refs \in [DataKinds -> Copies \cup {None}]
    BY <1>0, CalSaltType, NamesAssumption DEF Operations
  <1> HIDE DEF x
  <1>3. /\ o.uid = op.uid
        /\ o.digest = IF x.at = "digest" THEN CalSalt(op.spec) ELSE op.digest
        /\ o.refs = IF x.at = "copyRecord" THEN [op.refs EXCEPT ![NextInput(op)] = x.copy]
                    ELSE op.refs
        /\ o.entry = IF x.at = "entryRecord" THEN TRUE ELSE op.entry
        /\ o.named = IF x.at \in {"copyRecord", "entryRecord"} THEN TRUE ELSE op.named
        /\ o.status = IF x.at = "jobRecord" THEN "Running"
                      ELSE IF x.at \in {"fail", "entry"} THEN "Failed"
                      ELSE IF x.at = "result" THEN x.result ELSE op.status
    BY DEF Writes, x
  <1>n. BackedUp(op) => op.named
    BY DEF Inv, VersionsOK, IsVersion
  <1>4. CASE x.at = "jobRecord"
    <2>1. FrozenOf(o) = FrozenOf(op) /\ PhaseOf(o) = "Running"
      BY <1>0, <1>3, <1>4 DEF FrozenOf, PhaseOf
    <2>2. PhaseOf(op) \in {"Pending", "Running"}
      BY <1>0, <1>2, <1>4 DEF StageOK, Finished, PhaseOf, Statuses
    <2>3. FrozenOf(op) = AllInputs
      BY <1>0, <1>n, <1>4, Zenon DEF StageOK, FrozenOf, AllInputs, BackedUp
    <2> QED BY <1>3, <2>1, <2>2, <2>3 DEF LifeStep
  <1>5. CASE x.at \in {"fail", "entry"}
    <2>1. FrozenOf(o) = FrozenOf(op) /\ PhaseOf(o) = "Failed"
      BY <1>0, <1>3, <1>5 DEF FrozenOf, PhaseOf
    <2>2. PhaseOf(op) \in {"Pending", "Running"}
      BY <1>0, <1>2, <1>5 DEF StageOK, Finished, PhaseOf, Statuses
    <2> QED BY <1>3, <2>1, <2>2 DEF LifeStep
  <1>6. CASE x.at = "result"
    <2>1. FrozenOf(o) = FrozenOf(op) /\ PhaseOf(o) \in {"Succeeded", "Failed"}
      BY <1>0, <1>1, <1>3, <1>6 DEF FrozenOf, PhaseOf, AsksOK
    <2>2. op.status # ""
      BY <1>0, <1>1, <1>6 DEF AsksOK, RunningOK
    <2>3. PhaseOf(op) = "Running"
      BY <1>0, <1>2, <1>6, <2>2 DEF StageOK, Finished, PhaseOf, Statuses
    <2> QED BY <1>3, <2>1, <2>3 DEF LifeStep
  <1>7. CASE x.at = "digest"
    <2>1. op.digest = None /\ ~Finished(op)
      BY <1>0, <1>7 DEF StageOK
    <2>2. PhaseOf(op) = "Pending" /\ PhaseOf(o) = "Pending"
      BY <1>0, <1>1, <1>2, <1>3, <1>7, <2>1 DEF RunningOK, Finished, PhaseOf, Statuses
    <2>4. o.digest # None /\ o.refs = op.refs /\ o.entry = op.entry /\ o.named = op.named
      BY <1>2, <1>3, <1>7
    <2>5. FrozenOf(o) = FrozenOf(op) \cup {"digest"}
      BY <2>1, <2>4, Zenon DEF FrozenOf
    <2>6. FrozenOf(o) \subseteq AllInputs
      BY DEF FrozenOf, AllInputs
    <2> QED BY <1>3, <2>2, <2>5, <2>6 DEF LifeStep
  <1>8. CASE x.at = "copyRecord"
    <2>1. ~BackedUp(op) /\ ~Finished(op)
      BY <1>0, <1>8 DEF StageOK
    <2> DEFINE d == NextInput(op)
    <2>2. d \in DataKinds /\ op.refs[d] = None
      BY <2>1, NextInputIs
    <2> HIDE DEF d
    <2>3. PhaseOf(op) = "Pending" /\ PhaseOf(o) = "Pending"
      BY <1>0, <1>1, <1>2, <1>3, <1>8, <2>1 DEF RunningOK, Finished, PhaseOf, Statuses
    <2>4. /\ o.digest = op.digest /\ o.entry = op.entry /\ o.named
          /\ o.refs = [op.refs EXCEPT ![d] = x.copy]
      BY <1>3, <1>8 DEF d
    <2>5. \A e \in DataKinds : op.refs[e] # None => o.refs[e] = op.refs[e]
      BY <1>2, <2>2, <2>4
    <2>6. FrozenOf(op) \subseteq FrozenOf(o) /\ FrozenOf(o) \subseteq AllInputs
      BY <2>4, <2>5 DEF FrozenOf, AllInputs
    <2> QED BY <1>3, <2>3, <2>6 DEF LifeStep
  <1>9. CASE x.at = "entryRecord"
    <2>0. op.named /\ o.named /\ ~Finished(op)
      BY <1>0, <1>3, <1>n, <1>9 DEF StageOK
    <2>1. CASE op.entry
      <3>1. FrozenOf(o) = FrozenOf(op) /\ PhaseOf(o) = PhaseOf(op)
        BY <1>3, <1>9, <2>0, <2>1 DEF FrozenOf, PhaseOf
      <3> QED BY <1>3, <3>1 DEF LifeStep
    <2>2. CASE ~op.entry
      <3>1. PhaseOf(op) = "Pending" /\ PhaseOf(o) = "Pending"
        BY <1>0, <1>1, <1>2, <1>3, <1>9, <2>0, <2>2 DEF RunningOK, Finished, PhaseOf, Statuses
      <3>2. o.entry /\ o.refs = op.refs /\ o.digest = op.digest
        BY <1>3, <1>9
      <3>3. FrozenOf(o) = FrozenOf(op) \cup {"entrypoint"}
        BY <2>0, <2>2, <3>2, Zenon DEF FrozenOf
      <3>4. FrozenOf(o) \subseteq AllInputs
        BY DEF FrozenOf, AllInputs
      <3> QED BY <1>3, <3>1, <3>3, <3>4 DEF LifeStep
    <2> QED BY <2>1, <2>2
  <1>10. CASE x.at \notin {"jobRecord", "fail", "entry", "result", "digest", "copyRecord",
                           "entryRecord"}
    <2>1. FrozenOf(o) = FrozenOf(op) /\ PhaseOf(o) = PhaseOf(op)
      BY <1>3, <1>10 DEF FrozenOf, PhaseOf
    <2> QED BY <1>3, <2>1 DEF LifeStep
  <1> QED BY <1>4, <1>5, <1>6, <1>7, <1>8, <1>9, <1>10

LEMMA NothingFrozen ==
    ASSUME NEW o, o.refs = [d \in DataKinds |-> None], o.digest = None, o.entry = FALSE,
           o.named = FALSE
    PROVE  FrozenOf(o) = {}
  BY DEF FrozenOf

LEMMA ChangesLifeStep ==
    ASSUME Inv, LifecycleInv, Changes
    PROVE  LifeStep(op, lastUid, op', lastUid')
  <1>0. op \in Operations /\ lastUid \in Nat /\ op.status \in Statuses
    BY DEF Inv, TypeOK, Operations
  <1>1. CASE op' = op /\ lastUid' = lastUid
    BY <1>1 DEF LifeStep
  <1>2. CASE /\ \E p \in Replicas : Fresh(p) /\ Snapshot(p) = op /\ Writes(pass[p], op, op')
             /\ lastUid' = lastUid
    BY <1>2, WritesLifeStep
  <1>3. CASE /\ op.uid = 0 /\ lastUid' = lastUid + 1
             /\ \E s \in Specs : op' = NewOperation(lastUid + 1, s)
    <2>1. /\ op'.uid = lastUid + 1 /\ op'.status = ""
          /\ op'.refs = [d \in DataKinds |-> None] /\ op'.digest = None /\ op'.entry = FALSE
          /\ op'.named = FALSE
      <3>1. PICK s \in Specs : op' = NewOperation(lastUid + 1, s)
        BY <1>3
      <3>2. /\ op'.uid = lastUid + 1 /\ op'.status = "" /\ op'.digest = None /\ op'.entry = FALSE
            /\ op'.named = FALSE
        BY <3>1, Zenon DEF NewOperation
      <3>3. op'.refs = [d \in DataKinds |-> None]
        BY <3>1, Zenon DEF NewOperation
      <3> QED BY <3>2, <3>3
    <2>2. op'.uid # 0
      <3>1. lastUid + 1 # 0
        BY <1>0
      <3> QED BY <2>1, <3>1, Zenon
    <2>3. PhaseOf(op) = "Absent" /\ PhaseOf(op') = "Pending"
      BY <1>3, <2>1, <2>2 DEF PhaseOf
    <2>4. FrozenOf(op') = {}
      BY <2>1, NothingFrozen
    <2> QED BY <1>3, <2>1, <2>3, <2>4 DEF LifeStep
  <1>4. CASE op.uid # 0 /\ op' = NoOperation /\ lastUid' = lastUid
    <2>1. PhaseOf(op) # "Absent" /\ PhaseOf(op') = "Absent"
      BY <1>0, <1>4, NoOperationFields DEF PhaseOf, Statuses
    <2>2. FrozenOf(op') = {}
      BY <1>4, NoOperationFields, NothingFrozen
    <2> QED BY <1>4, <2>1, <2>2, NoOperationFields DEF LifeStep
  <1>5. CASE /\ op.uid # 0 /\ lastUid' = lastUid
             /\ \E s \in Specs : op' = [op EXCEPT !.spec = s, !.rv = op.rv + 1]
    <2>1. PICK s \in Specs : op' = [op EXCEPT !.spec = s, !.rv = op.rv + 1]
      BY <1>5
    <2>2. /\ op'.uid = op.uid /\ op'.refs = op.refs /\ op'.digest = op.digest
          /\ op'.entry = op.entry /\ op'.status = op.status /\ op'.named = op.named
      BY <1>0, <2>1, Zenon DEF Operations
    <2>3. PhaseOf(op') = PhaseOf(op) /\ FrozenOf(op') = FrozenOf(op)
      BY <2>2 DEF PhaseOf, FrozenOf
    <2> QED BY <1>5, <2>2, <2>3 DEF LifeStep
  <1> QED BY <1>1, <1>2, <1>3, <1>4, <1>5 DEF Changes

LEMMA LifeStepIsNext ==
    ASSUME LifeStep(op, lastUid, op', lastUid')
    PROVE  [Lifecycle!LNext]_(Lifecycle!lvars)
  <1> USE MappingIs
  <1>1. CASE /\ lastUid' = lastUid /\ op'.uid = op.uid
             /\ PhaseOf(op') = PhaseOf(op) /\ FrozenOf(op') = FrozenOf(op)
    BY <1>1 DEF Lifecycle!lvars
  <1>2. CASE /\ PhaseOf(op) = "Absent" /\ lastUid' = lastUid + 1 /\ op'.uid = lastUid'
             /\ PhaseOf(op') = "Pending" /\ FrozenOf(op') = {}
    BY <1>2 DEF Lifecycle!LNext, Lifecycle!Accept
  <1>3. CASE /\ lastUid' = lastUid /\ op'.uid = op.uid
             /\ PhaseOf(op) = "Pending" /\ PhaseOf(op') = "Pending"
             /\ FrozenOf(op) \subseteq FrozenOf(op') /\ FrozenOf(op') \subseteq AllInputs
    BY <1>3 DEF Lifecycle!LNext, Lifecycle!Freeze, AllInputs
  <1>4. CASE /\ lastUid' = lastUid /\ op'.uid = op.uid
             /\ PhaseOf(op) = "Pending" /\ FrozenOf(op) = AllInputs
             /\ PhaseOf(op') = "Running" /\ FrozenOf(op') = FrozenOf(op)
    BY <1>4 DEF Lifecycle!LNext, Lifecycle!Start, AllInputs
  <1>5. CASE /\ lastUid' = lastUid /\ op'.uid = op.uid /\ FrozenOf(op') = FrozenOf(op)
             /\ \/ PhaseOf(op) = "Running" /\ PhaseOf(op') \in {"Succeeded", "Failed"}
                \/ PhaseOf(op) = "Pending" /\ PhaseOf(op') = "Failed"
    BY <1>5 DEF Lifecycle!LNext, Lifecycle!End
  <1>6. CASE /\ lastUid' = lastUid /\ op'.uid = 0
             /\ PhaseOf(op) # "Absent" /\ PhaseOf(op') = "Absent" /\ FrozenOf(op') = {}
    BY <1>6 DEF Lifecycle!LNext, Lifecycle!Remove
  <1> QED BY <1>1, <1>2, <1>3, <1>4, <1>5, <1>6 DEF LifeStep

LEMMA LifecycleInit == Init => Lifecycle!LInit
  <1> SUFFICES ASSUME Init PROVE Lifecycle!LInit
    OBVIOUS
  <1>1. op = NoOperation /\ lastUid = 0
    BY DEF Init
  <1>2. PhaseOf(op) = "Absent" /\ FrozenOf(op) = {}
    BY <1>1, NoOperationFields, NothingFrozen DEF PhaseOf
  <1>3. op.uid = 0
    BY <1>1, NoOperationFields
  <1> QED BY <1>1, <1>2, <1>3, MappingIs DEF Lifecycle!LInit

\* The controller implements the lifecycle, with any number of replicas.
THEOREM LifecycleImplemented == Spec => ImplementsLifecycle
  <1>1. Inv /\ LifecycleInv /\ [Next]_vars => [Lifecycle!LNext]_(Lifecycle!lvars)
    BY NextChanges, ChangesLifeStep, LifeStepIsNext
  <1> QED BY <1>1, LifecycleInit, Invariant, RunningIsRecorded, PTL
          DEF Spec, ImplementsLifecycle, Lifecycle!LSpec

-----------------------------------------------------------------------------
(* What Fleet builds on. *)

LEMMA LabelIsFrozen == /\ Label = FrozenOf(op) \cap {"label"}
                       /\ Label' = FrozenOf(op') \cap {"label"}
                       /\ AllInputs \cap {"label"} = {"label"}
  BY DEF Label, FrozenOf, AllInputs, DataKinds

LEMMA LifeStepIsContract ==
    ASSUME LifeStep(op, lastUid, op', lastUid')
    PROVE  [Contract!LNext]_(Contract!lvars)
  <1> USE MappingIs, LabelIsFrozen
  <1>1. CASE /\ lastUid' = lastUid /\ op'.uid = op.uid
             /\ PhaseOf(op') = PhaseOf(op) /\ FrozenOf(op') = FrozenOf(op)
    BY <1>1 DEF Contract!lvars
  <1>2. CASE /\ PhaseOf(op) = "Absent" /\ lastUid' = lastUid + 1 /\ op'.uid = lastUid'
             /\ PhaseOf(op') = "Pending" /\ FrozenOf(op') = {}
    BY <1>2 DEF Contract!LNext, Contract!Accept
  <1>3. CASE /\ lastUid' = lastUid /\ op'.uid = op.uid
             /\ PhaseOf(op) = "Pending" /\ PhaseOf(op') = "Pending"
             /\ FrozenOf(op) \subseteq FrozenOf(op') /\ FrozenOf(op') \subseteq AllInputs
    BY <1>3 DEF Contract!LNext, Contract!Freeze
  <1>4. CASE /\ lastUid' = lastUid /\ op'.uid = op.uid
             /\ PhaseOf(op) = "Pending" /\ FrozenOf(op) = AllInputs
             /\ PhaseOf(op') = "Running" /\ FrozenOf(op') = FrozenOf(op)
    BY <1>4 DEF Contract!LNext, Contract!Start
  <1>5. CASE /\ lastUid' = lastUid /\ op'.uid = op.uid /\ FrozenOf(op') = FrozenOf(op)
             /\ \/ PhaseOf(op) = "Running" /\ PhaseOf(op') \in {"Succeeded", "Failed"}
                \/ PhaseOf(op) = "Pending" /\ PhaseOf(op') = "Failed"
    BY <1>5 DEF Contract!LNext, Contract!End
  <1>6. CASE /\ lastUid' = lastUid /\ op'.uid = 0
             /\ PhaseOf(op) # "Absent" /\ PhaseOf(op') = "Absent" /\ FrozenOf(op') = {}
    BY <1>6 DEF Contract!LNext, Contract!Remove
  <1> QED BY <1>1, <1>2, <1>3, <1>4, <1>5, <1>6 DEF LifeStep

\* The controller keeps the contract that Fleet assumes of it: an operation carries
\* its Cluster's label before it starts, and it ends once.
THEOREM ContractKept == Spec => Contract!LSpec
  <1>1. Init => Contract!LInit
    BY LifecycleInit, MappingIs, LabelIsFrozen DEF Lifecycle!LInit, Contract!LInit
  <1>2. Inv /\ LifecycleInv /\ [Next]_vars => [Contract!LNext]_(Contract!lvars)
    BY NextChanges, ChangesLifeStep, LifeStepIsContract
  <1> QED BY <1>1, <1>2, Invariant, RunningIsRecorded, PTL DEF Spec, Contract!LSpec
=============================================================================
