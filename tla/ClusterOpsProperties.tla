------------------------ MODULE ClusterOpsProperties ------------------------
(***************************************************************************)
(* The properties of ClusterOps: what the controller promises, the         *)
(* inductive invariant that the proofs use, the refinement mapping to      *)
(* OpsLifecycle, and what the repository says and the code does not do.    *)
(***************************************************************************)
EXTENDS ClusterOps

(* What the controller promises. *)

SameOps == op'.uid = op.uid /\ op.uid # 0

\* A final status is final: of the replicas, stale caches, retries and
\* crashes, none ever turns a finished incarnation back or over.
FinalStatusIsFinal == [][SameOps /\ Finished(op) => op'.status = op.status]_vars

\* What m has recorded, o has recorded too.
Keeps(m, o) == /\ m.digest # None => o.digest = m.digest
               /\ \A d \in DataKinds : m.refs[d] # None => o.refs[d] = m.refs[d]
               /\ m.entry => o.entry
               /\ m.jobRef => o.jobRef
               /\ m.modified => o.modified
               /\ m.named => o.named

\* What an incarnation has recorded (its digest, each backed-up input, its
\* entrypoint, its job, its modified flag, its Cluster's label) is never
\* replaced or withdrawn.
RecordsAreFrozen == [][SameOps => Keeps(op, op')]_vars

Signed(e, o) == e.uid # 0 /\ e.uid = o.uid =>
                    o.digest = CalSalt(e.spec) \/ o.modified

\* What runs is what was signed: the script and the pod template made for an
\* incarnation come from a spec with the stored digest, or the incarnation is
\* flagged as modified.
SignedOrFlagged == Signed(entry, op) /\ Signed(job, op)

Mounts(j, o) == j.uid # 0 /\ j.uid = o.uid =>
                    BackedUp(j) /\ j.refs = o.refs /\ o.entry /\ o.named

\* The job of an incarnation mounts exactly the backups that the incarnation
\* records, and there is a script for it to mount.
JobMountsBackups == Mounts(job, op)

\* With one replica the script that an incarnation's job mounts is its own:
\* no late pass of an earlier incarnation overwrites it and no collection of
\* an earlier incarnation's objects takes it away.
OwnEntrypoint == op.entry => entry.uid = op.uid

\* With one replica no job is started for an incarnation that is finished.
NoJobAfterFinish ==
    [][job.uid = 0 /\ job'.uid # 0 /\ job'.uid = op.uid => ~Finished(op)]_vars

\* A job is only suspended when a second pod of it has been seen.
OnlyASecondPodSuspends == job.suspend => lastPod > 1

\* With one replica, when the status says how an incarnation has ended, its job is
\* over, unless the spec is no longer the one that the job was made from.
FinishedMeansJobEnded ==
    [][SameOps /\ ~Finished(op) /\ Finished(op') /\ job.uid = op.uid /\ job.spec = op.spec
         => job.cond # "none"]_vars

\* With one replica and no failed call, an unfinished operation never drops out
\* of the controller's sight: a pass runs, is queued, or an event is due.
AlwaysPending ==
    faults = 0 /\ op.uid # 0 /\ ~Finished(op) =>
        \E p \in Replicas : queued[p] \/ ~At(p, "idle") \/ cache[p] # op

\* The controller finishes every incarnation, unless its Cluster is gone or
\* its custom action has no source.
Completes ==
    \A u \in 1..MaxUid :
        op.uid = u ~> \/ op.uid # u \/ Finished(op)
                      \/ ~cluster \/ op.spec.action \in Unsourced

\* A modification after the digest is flagged while the operation goes on.
ModificationNoticed ==
    op.digest # None /\ ~compareDigest(op)
        ~> op.uid = 0 \/ op.modified \/ compareDigest(op) \/ Finished(op) \/ ~cluster

\* A pod that replaces the actor pod and keeps running gets its job suspended.
SecondPodStopped ==
    \A k \in 1..MaxPods :
        op.jobRef /\ op.actor \notin {0, k} /\ job.pods = {k}
            ~> \/ job.pods # {k} \/ job.suspend
               \/ Finished(op) \/ op.actor \in {0, k}

\* When the operation is gone for good, so is everything made for it, whatever
\* late passes still create.
NoLeftovers == <>[](op.uid = 0) => <>[](job.uid = 0 /\ entry.uid = 0)

-----------------------------------------------------------------------------
(* The inductive invariant behind the safety properties. *)

\* m is the stored object o, an earlier version of it, or a version of another
\* incarnation, u being the last one.
IsVersion(m, o, u) ==
    /\ m.uid <= u
    /\ BackedUp(m) => m.named
    /\ m.uid = o.uid /\ o.uid # 0 =>
         /\ m.rv <= o.rv
         /\ m.rv = o.rv => m = o
         /\ Keeps(m, o)

\* What the code has checked of its snapshot m when it is about to do step at.
StageOK(at, m) ==
    /\ at \notin {"idle", "label"} => ~Finished(m)
    /\ at = "digest" => m.digest = None
    /\ at \in {"copy", "copyRecord"} => ~BackedUp(m)
    /\ at \in {"copy", "copyRecord", "entry", "entryRecord",
               "references", "job", "jobCreate", "jobRecord"} =>
         m.digest # None /\ (m.modified \/ compareDigest(m))
    /\ at \in {"entry", "entryRecord", "references", "job", "jobCreate", "jobRecord"} =>
         BackedUp(m)
    /\ at \in {"references", "job", "jobCreate", "jobRecord"} => m.entry

VersionsOK == /\ IsVersion(op, op, lastUid)
              /\ job.uid <= lastUid /\ entry.uid <= lastUid
              /\ \A p \in Replicas :
                   /\ IsVersion(cache[p], op, lastUid)
                   /\ IsVersion(pass[p].ops, op, lastUid)

Inv == /\ TypeOK
       /\ VersionsOK
       /\ \A p \in Replicas : StageOK(pass[p].at, pass[p].ops)
       /\ SignedOrFlagged
       /\ JobMountsBackups

-----------------------------------------------------------------------------
(* What the other proofs add to it. *)

\* What runs has recorded everything; what has a job is running or over; and how a
\* job has ended is asked only of what has a job.
LifecycleInv ==
    /\ op.status = "Running" => BackedUp(op) /\ op.digest # None /\ op.entry
    /\ op.jobRef => op.status # ""
    /\ \A p \in Replicas :
         /\ pass[p].at \in {"fetch", "result"} => pass[p].ops.jobRef
         /\ At(p, "result") => pass[p].result \in {"Succeeded", "Failed"}

\* Pods are numbered from 1; a pass that is about to suspend has seen two of them.
PodsInv ==
    /\ job.pods \subseteq 1..lastPod
    /\ op.actor <= lastPod
    /\ \A p \in Replicas :
         /\ cache[p].actor <= lastPod
         /\ pass[p].ops.actor <= lastPod /\ pass[p].pod <= lastPod
         /\ At(p, "suspend") => /\ pass[p].ops.actor # 0 /\ pass[p].pod # 0
                                /\ pass[p].ops.actor # pass[p].pod
    /\ job.suspend => lastPod > 1

\* What replica p has in hand while no call has failed: an unfinished operation is
\* queued, worked on, or changed; and a pass works on what is cached, or on what is
\* to come out of the queue again.
InHand(p) ==
    /\ op.uid # 0 /\ ~Finished(op) => queued[p] \/ ~At(p, "idle") \/ cache[p] # op
    /\ pass[p].at \notin {"idle", "label"} => queued[p] \/ cache[p] = Snapshot(p)
    /\ At(p, "label") => Finished(Snapshot(p))

PendingInv == faults = 0 => \A p \in Replicas : InHand(p)

\* m cannot get as far as the creation of a job.
Stuck(m) == Finished(m) \/ m.jobRef \/ ~IsValidImageName(m) \/ ~BackedUp(m) \/ ~m.entry

\* The only replica r: its cache is never behind its snapshot, an entrypoint
\* that is recorded is there, and a finished operation is left alone.
AloneInv(r) ==
    /\ entry.uid # 0 => entry.uid \in entry.owners
    /\ ~At(r, "idle") /\ op.uid # 0 /\ Snapshot(r).uid = op.uid =>
         cache[r].uid = op.uid /\ (At(r, "label") \/ Snapshot(r).rv <= cache[r].rv)
    /\ op.entry => /\ entry.uid = op.uid /\ cache[r].uid = op.uid
                   /\ At(r, "idle") \/ Snapshot(r).uid = op.uid
    /\ At(r, "entryRecord") /\ op.uid # 0 /\ Snapshot(r).uid = op.uid => entry.uid = op.uid
    /\ At(r, "fail") => ~IsValidImageName(Snapshot(r)) \/ ~BackedUp(Snapshot(r))
    /\ At(r, "entry") => ~Snapshot(r).entry
    /\ pass[r].at \in {"references", "job", "jobCreate"} => IsValidImageName(Snapshot(r))
    /\ pass[r].at \in {"job", "jobCreate"} => ~Snapshot(r).jobRef
    /\ op.uid # 0 /\ Finished(op) =>
         /\ cache[r].uid = op.uid => Stuck(cache[r])
         /\ Snapshot(r).uid = op.uid => Stuck(Snapshot(r))
    /\ job.uid # 0 => job.spec.image \notin BadImages
    /\ At(r, "result") /\ job.uid # 0 /\ job.uid = Snapshot(r).uid => job.cond # "none"

-----------------------------------------------------------------------------
(* The abstract specification that the controller implements. *)

Phase == IF op.uid = 0 THEN "Absent" ELSE IF op.status = "" THEN "Pending" ELSE op.status

Label == IF op.named THEN {"label"} ELSE {}

Frozen == {d \in DataKinds : op.refs[d] # None}
          \cup (IF op.digest # None THEN {"digest"} ELSE {})
          \cup (IF op.entry THEN {"entrypoint"} ELSE {})
          \cup Label

Lifecycle == INSTANCE OpsLifecycle WITH
                 Inputs <- DataKinds \cup {"digest", "entrypoint", "label"}, Given <- {},
                 issued <- lastUid, incarnation <- op.uid,
                 phase <- Phase, frozen <- Frozen

\* The same with the label as the only input: what Fleet builds on.
Contract == INSTANCE OpsLifecycle WITH
                Inputs <- {"label"}, Given <- {"label"},
                issued <- lastUid, incarnation <- op.uid,
                phase <- Phase, frozen <- Label

\* The controller implements the lifecycle: no interleaving of passes, stale
\* caches, faults and users starts an operation before its digest, backups,
\* entrypoint and label are recorded, or changes the record of one that has started.
ImplementsLifecycle == Lifecycle!LSpec

-----------------------------------------------------------------------------
(* What the repository says of the program and the program does not do. *)

\* docs/en/concepts/architecture.md:16: the controller assembles a Job for the
\* ClusterOperation that is created: the job that an operation follows is its own.
JobRefIsOwn == op.jobRef /\ job.uid # 0 => job.uid = op.uid

\* types.go:136 "HasModified indicates the spec has been modified by others
\* after created": a job never runs another spec than the one created, unflagged.
ModifiedIsFlagged ==
    job.uid # 0 /\ job.uid = op.uid /\ job.spec # op.created => op.modified
=============================================================================
