# Kubean: a TLA+ verification project

Kubean is a Kubernetes operator that installs, upgrades, scales and resets
Kubernetes clusters by running Ansible (Kubespray) in Jobs. A user creates a
`Cluster` (the hosts) and `ClusterOperation`s (one playbook run each); the
operator prepares what the run needs, starts its Job and reports how it ended.
This directory holds TLA+ models of the operator's own logic, TLC
configurations that check them on small instances, and proofs checked by TLAPS.

Paths below are relative to the repository (`src/` is its root here).

## 1. Inventory

| component | code | state it keeps | operations |
|---|---|---|---|
| clusterops controller | `pkg/controllers/clusterops/controller.go` | the `ClusterOperation`'s spec, status, labels and annotation; copies of the Cluster's ConfigMaps and Secret; the entrypoint ConfigMap; the Job | `Reconcile`, one stage after the other |
| entrypoint renderer | `pkg/util/entrypoint/` | none | spec to shell script, or an `ArgsError` |
| cluster controller | `pkg/controllers/cluster/controller.go` | `Cluster.status.conditions`, labels, ConfigMap owner references | `Reconcile`: clean excess operations, collect conditions, own the inputs |
| admission webhook | `pkg/webhooks/clusterops/clusterops_webhook.go` | CA Secret, webhook configuration | serve admission, create CA and patch the webhook, wait for the CA |
| manifest controller | `pkg/controllers/infomanifest/controller.go` | each Manifest's local service (spec) and spray-job image (status); a registry of cached Manifests, by release | `Reconcile`; the registry's `Op` |
| localartifactset controller | `pkg/controllers/offlineversion/controller.go` | `Manifest.status.localAvailable` | `Reconcile`: merge the versions of a set into the Manifests of its release |
| crypto configuration | `pkg/crypto/crypto.go` | the private key in the ConfigMap `kubean-config`, the public one in `kubean-pubkey` | `InitConfiguration` |
| operator process | `cmd/kubean-operator/app/` | leader lease, informer caches and handlers, work queues | start, stop, lead |
| admission process | `cmd/kubean-admission/app/` | lease, certificate files, HTTPS server | start, campaign, serve, stop |
| certificate manager | `pkg/util/certmanager.go` | none | make X.509 certificates |
| generated clients | `api/generated/` | none | - |
| playbooks, charts, artifacts | `playbooks/`, `charts/`, `artifacts/` | none the operator reads | run in jobs or at release time |

**How they interact.** Only through objects in the API server. The clusterops
controller reads the Cluster and its inputs, owns every object it makes (so the
garbage collector removes them with the operation), and writes
`status.status`. The cluster controller reads that status into the Cluster's
conditions and deletes operations; the webhook counts running operations of a
Cluster before a new one is admitted. The localartifactset controller merges the
versions of LocalArtifactSets into the status of the Manifests with the same label
`sprayRelease`; the manifest controller writes the image of the spray job into the
same status, and the local services of a ConfigMap into the Manifests' spec. Inside
the operator the two share a registry of cached Manifests that informer
handlers keep. The admission pods share a lease, a Secret and the webhook
configuration. The key pair is made before any controller starts; users encrypt with the
public key, the jobs decrypt with the private one.

**What is hard.** Nothing holds a lock. A pass starts from an informer cache
that may be stale, keeps that snapshot over a dozen API calls, may stop after
any of them, and meets users, the garbage collector, the job controller and,
without fencing, a second operator replica between any two of them. Progress
depends on the work queue: a pass that returns without requeue relies on an
event. Names are reused: the Job, the entrypoint ConfigMap and the operation are
found by name, and an operation can be deleted and created again.
Every hazard is listed, at its line, in `PROJECT.json`.

**What makes each component correct.**

- clusterops: what is recorded is never replaced; what runs is what was signed,
  or is flagged; the job mounts the recorded backups; a final status is final;
  every operation ends; leftovers disappear; only a second pod suspends a job.
- cluster controller: the clean-up ends with at most the configured number of
  operations and never leaves fewer; conditions never go back, and converge.
- webhook: at most one unfinished operation per Cluster as far as admission can
  tell, and otherwise no more than requests that race; the CA in the Secret, the webhook configuration and the served
  certificate agree; the admission pods come up, and never all wait for a leader
  that has given up.
- manifests: a Manifest reports only versions published for a release it has had;
  neither controller undoes what the other writes; a cached object that is merged
  into is not taken for stored; versions, image and local services arrive.
- crypto: the private key is never replaced; the published key fits the stored one;
  somebody publishes it.

## 2. Modules

| module | models | properties, invariants | instances | proofs |
|---|---|---|---|---|
| `ClusterOps` | the clusterops controller, its replicas, its environment | `ClusterOpsProperties` (also the refinement mapping) | `MCClusterOps` | `ClusterOpsProofs`, `LifecycleProofs`, `OperatorProofs` |
| `OpsLifecycle` | abstract specification of one operation | - | by refinement, from `ClusterOps` and `Fleet` | `LifecycleProofs`, `FleetProofs` |
| `Fleet` | the operations of one Cluster: cluster controller, admission check, API server | `FleetProperties` | `MCFleet` | `FleetProofs`, `CleanupProofs` |
| `Airgap` | the manifest and the localartifactset controller, and the registry they share | `AirgapProperties` | `MCAirgap` | `AirgapProofs` |
| `Bootstrap` | how the admission webhook comes up | `BootstrapProperties` | `MCBootstrap` | `BootstrapProofs` |
| `Keys` | the operator's key pair | `KeysProperties` | `MCKeys` | `KeysProofs` |

The `X_run.cfg` of a module `MCX` is the instance of the run `run`.

**How `Fleet` and `ClusterOps` compose.** `ClusterOps` models one operation in detail, `Fleet`
all operations of a Cluster with three steps for each: `Label`, `Start` and `End`. Between the
two stands `OpsLifecycle`, with the inputs that must be frozen as a parameter:

- `ClusterOps` implements it with all inputs (`Lifecycle`), and with the Cluster's label
  as the only one (`Contract`): theorems `LifecycleImplemented`, `ContractKept`;
- `Fleet` does to an operation what the contract allows, no less (`ContractIsAdvance`);
- and no more: with the webhook, the clean-up and the users beside it, every name
  in `Fleet` goes through the same lifecycle (`FollowsLifecycle`, `LifecycleFollowed`).

So what `Fleet` shows of a Cluster's operations it shows of operations that
`ClusterOps` may produce. That the contract speaks of one name at a time is what the code
gives: two operations share no object but the Cluster and its inputs.

### ClusterOps

It models the `ClusterOperation`s of *one name* over their successive
incarnations (`uid`). Operations with other names share only the Cluster and its
inputs with it, which here appear and disappear by themselves.

| model | code |
|---|---|
| `op` | the ClusterOperation in the API server, `uid` 0 when there is none, `rv` its resourceVersion |
| `cache[p]`, `queued[p]` | the informer cache and the work queue of replica `p` |
| `pass[p]` | the local variables of the running `Reconcile`: next call, snapshot, the job, pod, copy or status read |
| `job`, `entry` | the Job and the entrypoint ConfigMap, found by name, with the incarnations that made and own them |
| `op.refs`, `pass[p].copy` | the ConfigMap and Secret copies, by name |
| `source`, `cluster` | the inputs and the Cluster that exist |

Every API call is a step (`pass[p].at` names the next one), so that every other
actor can act between two calls. An update carries the snapshot's `uid` and `rv`
and is accepted only if both still are those of `op` (`Fresh`): all of the code's
updates of the ClusterOperation go through the object read at the beginning of
the pass. The stages that update the object return with a requeue whether or not
the update was accepted. `FailedCall` is any call that fails, with what the code
does of the error at that place; `Crash` is the process being replaced.

The mapping is one action per stage: `Reconcile` (the read and the early return
on a finished object), `SuspendGetJob`, `SuspendListPods`, `Annotate`,
`SuspendJob` (`TrySuspendPod`), `Check` and `FailOps` (`GetKuBeanCluster`,
`IsValidImageName`, `CheckClusterDataRef`), `UpdateOperationOwnReferenceForCluster`,
`UpdateClusterOpsStatusDigest`, `UpdateStatusHasModified`, `CopyInput` and
`RecordCopy` (`BackUpDataRef`), `RejectArgs`, `CreateEntryPointShellConfigMap`
and `RecordEntryPoint`, `UpdateOwnReferenceToClusterOps`, `GetJob`, `CreateJob`
and `RecordJob` (`CreateKubeSprayJob`), `FetchJobStatus` and `RecordResult`
(`UpdateStatusLoop`), `UpdateStatusForLabel`. The environment is `CacheSync`,
`Resync`, the users, the job controller, the kubelet and the garbage collector.

Abstractions, and what they leave out:

- Contents: specs are records of an action, extra arguments and an image; the
  contents of inputs and of the script are not modelled (the script is the spec
  it is rendered from). A copy is a number; a number nothing refers to any more is
  used again, which keeps the state finite.
- `created` (the spec at creation) is a history field: no code reads it.
- Create-or-update of the entrypoint ConfigMap and each owner-reference update in
  `UpdateOwnReferenceToClusterOps` is one step, although the code reads and
  writes in two calls.
- Time: `RequeueAfter` requeues at once, `Resync` may come at any time.
- Not modelled: references that a user fills in beforehand, edits of
  `spec.cluster`, changes of the Cluster's `sshAuthRef`, ConfigMaps of custom
  actions beyond their presence, users who delete the ConfigMaps that the
  operator made, a relist that goes back in time.
- The `hasCompleted` label is modelled, but no property is stated about it: the
  webhook that would use it drops the result of `selector.Add`
  (`clusterops_webhook.go:242`), so nothing in the program relies on it.

### OpsLifecycle

What a user may rely on: an incarnation is accepted under a new uid, its inputs are frozen,
it starts only when everything is frozen (digest, each backup, entrypoint, label),
it ends once (or fails before it starts), and then nothing changes until it is
removed. `Inputs` are what must be frozen, `Given` what may be there from the
beginning (a user may set the label himself). `Elsewhere` is a uid that goes to another name.
`ClusterOpsProperties!Lifecycle` and `!Contract` map the controller to it,
`FleetProperties!Lifecycle(n)` each name of a Cluster.

### Fleet

It models the `ClusterOperation`s of *one Cluster*, by name.

| model | code |
|---|---|
| `ops[n]` | the ClusterOperation `n` in the API server, `uid` 0 when there is none |
| `requests[n]` | a request to create `n`: under review by the webhook, or let in and not yet stored |
| `cluster` | the Cluster: its resourceVersion and `status.conditions` |
| `cache[p]`, `pass[p]` | the informer cache of replica `p`, and the local variables of its `Reconcile` |
| `owned` | the Cluster is an owner of its inputs |

A pass of the cluster controller is `Reconcile` (the read of the Cluster),
`ListExcess` and `DeleteExcess` (`CleanExcessClusterOps`), `ListConditions` and
`UpdateStatus` (`UpdateStatus`), `UpdateOwnReferenceToCluster`, with `FailedCall`
for any call that fails and `Crash`. It lists the operations from the API server,
not from a cache, but reads the Cluster from its cache and writes it with the
resourceVersion read, so a write from a stale Cluster is refused. Every return
asks for another pass after 15 seconds, so an idle replica may always start one.
`Review`, `NoReview` and `Store` are the webhook's answer, the failure policy when
there is none (also when the webhook's own listing fails: it answers 400), and
the creation that follows, which is not atomic with the answer.

Abstractions, and what they leave out:

- Listings and conditions are sets. Their order decides only which operations are in
  excess, and that is kept (`Precedes`, `Place`): lowest score first, then newest. The
  second of the code's two sorts is stable for at most twelve operations, so
  the model is faithful up to twelve.
- A uid stands for the creation time and for the start time. Creation times that
  agree to the second do not occur.
- An end time changes together with the final status and is left out of a condition.
- The Cluster is never deleted, and owning its up to five inputs is one step.
- `Limit` is the number in `kubean-config`; a read that fails, like a number that
  is none, gives the default (`BackEndLimit`).

### Airgap

What the operator does where there is no internet: it tells which versions are
available locally, and where the local services are.

| model | code |
|---|---|
| `manifest[m]`, `sets[a]`, `local` | the Manifests, the LocalArtifactSets and the ConfigMap `kubean-localservice` in the API server |
| `held`, `created`, `lost` | the registry of Manifests by release (`VersionedManifest`): pointers to cached objects, kept by the informer's handlers |
| `pending` | Manifests whose handler has not been called for their last change |
| `seen[a]` | the LocalArtifactSet in the cache |
| `merge` | the pass of the localartifactset controller: the set's content, the Manifests still to visit, the status about to be written |
| `info` | the pass of the manifest controller: the list it started from, the service or image it writes |
| `current` | which copies are still what is stored; the only thing the code uses a resourceVersion for |

The localartifactset controller is `LabelSet` (the migration of the label),
`Reconcile` (read the set, look up the Manifests of its release), `MergeNext`
(`MergeSoftwareInfo`, `MergeDockerInfo`, `UnifyVersions`, *into the cached object*),
`GetManifest` and `UpdateMerged` (read again, write the whole status). The manifest
controller is `ListManifests`, `IsOnlineENV`, `FetchLocalServiceCM`,
`UpdateLocalService`, `FetchKubeanConfigProperty` and
`UpdateLocalAvailableImage`. `Handle` is the add, update or delete handler; it may change
the slice that a walk is in the middle of (`Shifted`). `HandleRaced` is the registry created
twice, by the worker and by the first handler. `FailedCall` does with an
error what the code does at that place, which is often to go on with an empty value.

Abstractions: a version is a kind, a number and whether it is written with a `v`; lists
of versions are sets; there is one component and one operating system. A local service is its
image repository and its scheme, whose default the API server fills in (`Stored`). The tag
of the spray-job image depends on the Manifest alone and is left out. A handler that is called
late is given the latest version. `published`, `worn` and `dropped` are history fields:
no code reads them. `dropped` holds the Manifests whose cached object has, after a failed
call, versions that are not stored.

### Bootstrap

How the admission webhook comes up. Two routines of each pod run beside each
other: the campaign for the lease, whose winner makes the certificate and the
configuration, and the main routine, which waits for the Secret and serves.

| model | code |
|---|---|
| `secret`, `config` | the CA Secret, and the `ValidatingWebhookConfiguration` with its bundle |
| `lease`, `campaign[p]` | the lease and `RunOrDie` of pod `p` |
| `callback[p]` | `OnStartedLeading`: `EnsureCASecretExist` and `UpdateClusterOperationWebhook` (`CheckSecret`, `CreateSecret`, `ReadSecret`, `ReadConfig`, `WriteConfig`) |
| `server[p]` | `WaitForCASecretExist`, `CreateHTTPSCAFilesFromSecret`, `StartWebHookHTTPSServer` |
| `current` | pods whose copy of the configuration is still what is stored |

`RunOrDie` returns when the lease is lost, but its callback goes on, so two pods can
make certificates at once. The code repeats nothing but the wait for the Secret.

Abstractions: a certificate is a fresh number, and its bundle is the server's
certificate itself, as `UpdateClusterOperationWebhook` uses it. The certificate files
are in the container (`charts/kubean/templates/deployment_webhook.yaml` mounts no
volume), so a restart begins without them.

### Keys

`InitConfiguration`, run by every operator process before it leads.

| model | code |
|---|---|
| `sk`, `pk` | the private key in `kubean-config`, the public key in `kubean-pubkey` |
| `process[p]` | the next call (`GetConfig`, `UpdateConfig`, `CreatePubkey`) and the pair generated |
| `chart` | the keys that Helm is given: none, the private one, or both |

An error ends the process, which is started again. `LostAnswer` is a write that is
accepted and not answered. `Reinstall` removes what Helm made, which is not the `kubean-pubkey`
that the operator made. A pair is a fresh number.

## 3. Runs

| run | instance | what it shows |
|---|---|---|
| `incarnations` | `ClusterOps`: 1 replica, 2 incarnations, 2 actions and 2 images (one of each bad), ssh, 1 disturbance, 1 fault (985,000 states) | `SignedOrFlagged`: script and pod template are made from the signed spec, or the flag is up. `JobMountsBackups`, `OwnEntrypoint`, `NoJobAfterFinish`: late passes of a deleted incarnation do not spoil the next one. `FinalStatusIsFinal`, `RecordsAreFrozen`: no record is replaced or withdrawn. `FinishedMeansJobEnded`: an operation ends after its job. `AlwaysPending`: an unfinished operation is queued, running or about to get an event. `ImplementsLifecycle` |
| `operator` | 1 replica, 2 actions, 2 pods, 1 disturbance, 1 fault, the operator fair, the job not | `OnlyASecondPodSuspends`, `SecondPodStopped`: the guard against a restarted playbook. `ModificationNoticed` |
| `completion` | 1 replica, 2 incarnations, 2 actions (one without source), 1 disturbance, 1 fault, fair | `Completes`, and `NoLeftovers`: what late passes create is collected |
| `conditions` | `Fleet`: 2 replicas, 2 names, 2 operations created, 1 edit, symmetry | `AtMostOneUnfinished`, `ConditionsNeverRegress`. `FollowsLifecycle`: each name goes through the lifecycle that `ClusterOps` implements |
| `cleanup` | `Fleet`: 1 replica, 2 names, 2 scores, limit 1, 1 edit, 1 fault, failure policy Ignore, fair (866,000 states) | `AdmissionBound`: one unfinished operation, and one more for a review that was missed. `KeepsLimit`: what the clean-up and the users leave makes up the limit. `Converges`: no excess, conditions as the operations are, inputs owned |
| `artifacts` | `Airgap`: 2 Manifests, 1 set, 2 releases, 1 edit, 1 fault, fair | `OnlyPublished`, `ImagesKeepVersions`: the two controllers do not mix up releases or undo each other's writes. `CachedIsStored`: what the registry takes for written is. `VersionsArrive`, `ImagesArrive`, `LocalServiceArrives` |
| `bootstrap` | `Bootstrap`: 2 pods, 2 restarts, 1 lost lease, 1 fault, 1 edit, fair (1,071,000 states) | `ServingAgrees`: what is served is what is trusted. `NoStall`: until the start-up is done somebody works on it or anybody may. `ComesUp` |
| `keys` | `Keys`: 3 processes, 2 faults, 1 reinstallation, 1 edit, fair (139,000 states) | `KeyNeverReplaced`, `KeysFit`, `NothingForgotten`, `Published` |
| `adopted` | violation of `JobRefIsOwn` | finding 1 |
| `extraargs` | violation of `ModifiedIsFlagged` | finding 2 |
| `starved` | violation of `ServicesAlwaysArrive` | finding 3 |
| `unretried` | violation of `VersionsAlwaysArrive` | finding 4 |

A type invariant is checked in one run of each module.

**Bounds.** *ClusterOps.* `MaxUid` (incarnations): the code compares a uid only with its
own, so two incarnations show every confusion of an old one with a new one.
`MaxEdits` (disturbances: edits of the spec, removals of an input, of the Cluster or of
the job) and `MaxFaults`: the code keeps no count of either; one at any place
followed by a full recovery covers each check and each error path. `MaxPods`: a first pod and
its replacement, which are all the code tells apart: it compares a pod only with
the recorded one. `Copies`, `JobIds`: enough names that one is always
free. One replica is what leader election gives except in a hand-over. Several
replicas are left to the proofs: what is stated for any number of them is proved for any
number.

*Fleet.* `MaxUid` bounds the operations created: with two names the second can be a name
used again. The limit is 1, so that two operations are one too many. `MaxRequests` is 1: the
webhook cannot see a request that is not stored yet, and with two at once two
operations of a Cluster run together, so `AtMostOneUnfinished` is stated for
requests one after the other. `AdmissionBound` is stated for any number at once; the runs show
it where a webhook with the policy `Ignore` is passed by, the proof for the rest.

*Airgap.* Two Manifests, because the code singles out the first; two releases, the default one and
another, with a set that moves from one to the other (an edit). One version is enough for
it to be missing or out of place; the merge of several is a union, and the proofs are
about any number.

*Bootstrap.* Two pods are what it takes to lead at the same time; two restarts
let each pod restart once, or one of them twice.

*Keys.* Three processes: one that stores, one that is refused, and one that starts later.

**Deadlock** is not checked in `ClusterOps`, `Airgap`, `Bootstrap` and `Keys`: these
really may stop, when the name has been used `MaxUid` times and everything is
collected, when there is neither a Manifest nor a set to work on, or when everything
is up. In `Fleet` a replica can always start a pass, and deadlock is checked.

**Fairness.** `OperatorFairness` (`ClusterOps`): a worker takes what is queued and goes on with
its pass (controller-runtime's worker loop), the informer delivers every change
and resyncs (controller-runtime's ten hours), a suspended job ends, the garbage
collector works. Nothing is assumed of users, faults or losses, which are
bounded. `JobFairness` adds that the job's pods start and the job ends; only
`completion` uses it. `Fleet!Fairness` is the same for the cluster controller (the
worker goes on, the informer delivers) and takes from `ClusterOps!Completes` that an
operation goes on and ends. `Airgap!Fairness`: both workers go on, the informers
deliver, and each set has its turn again and again; that is strong fairness, because the
worker is busy in between, and it is what a queue that is first in, first out gives to
sets of which every pass asks for another. `Bootstrap!Fairness`: the routines of a pod go
on, a free lease is taken, and one that is not renewed runs out. `Keys!FairSpec`: a process
goes on, and is started again after it exits (the kubelet). Weak fairness is enough
elsewhere: each of these actions, once possible, stays possible until taken or until
its purpose is gone.

What the liveness properties leave out is what the code does not recover from:
`VersionsArrive` the Manifests in a lost registry and those of a failed merge (finding 4),
`ComesUp` failed calls, edits, and a restart together with a lost lease, `Published` a process
stopped between the two writes.

## 4. Proofs

The only assumptions are the named `ASSUME`s of the modules about
the shape of their constants, which TLC evaluates in every run, and, where a theorem
says so (`ASSUME NEW r, Replicas = {r}`), that there is one replica. Otherwise a theorem
holds for any number of replicas, names, values and any bounds.

| module | theorems |
|---|---|
| `ClusterOpsProofs` | `TypeCorrect`, `Invariant` (`[]Inv`), `ScriptAndJobSigned` (`[]SignedOrFlagged`), `JobMounts` (`[]JobMountsBackups`), `StatusIsFinal` (`FinalStatusIsFinal`), `RecordsFrozen` (`RecordsAreFrozen`) |
| `LifecycleProofs` | `LifecycleImplemented` (`ImplementsLifecycle`), `ContractKept` (`Contract!LSpec`) |
| `OperatorProofs` | `SecondPodSuspends` (`[]OnlyASecondPodSuspends`), `NothingIsForgotten` (`[]AlwaysPending`); with one replica `AloneInvariant`, `EntrypointIsOwn` (`[]OwnEntrypoint`), `NothingAfterFinish` (`NoJobAfterFinish`), `EndsAfterJob` (`FinishedMeansJobEnded`) |
| `FleetProofs` | `TypeCorrect`; `AdmissionBounded` (`[]AdmissionBound`); `OneUnfinished` (`[]AtMostOneUnfinished`, if the failure policy is `Fail` and requests come one after the other); `NeverRegress` (`ConditionsNeverRegress`); `LifecycleFollowed` (`FollowsLifecycle`), `ContractIsAdvance` |
| `CleanupProofs` | with one replica `CleanupKeepsLimit` (`KeepsLimit`) |
| `AirgapProofs` | `TypeCorrect`, `Invariant` (`[]AirgapInv`), `NeverMixed` (`[]OnlyPublished`), `MergesKept` (`ImagesKeepVersions`), `CacheStored` (`[]CachedIsStored`) |
| `BootstrapProofs` | `TypeCorrect`, `Invariant` (`[]BootstrapInv`), `ServedIsTrusted` (`[]ServingAgrees`), `NeverStalls` (`[]NoStall`) |
| `KeysProofs` | `TypeCorrect`, `Invariant` (`[]KeysInv`), `PublishedFits` (`[]KeysFit`), `NobodyForgets` (`[]NothingForgotten`), `NeverReplaced` (`KeyNeverReplaced`) |

**ClusterOps.** `SignedOrFlagged` and `JobMountsBackups` are not
inductive: `CreateJob` and `CreateEntryPointShellConfigMap` write what the
*snapshot* says, and the snapshot may be old. `Inv` adds (`VersionsOK`) that
every cache and every snapshot `IsVersion` of the stored object: of an
incarnation not newer than the last; and if of the same incarnation, not newer than the
stored one, equal to it if the resourceVersions are, and with nothing recorded
that the stored one has lost; and (`StageOK`) that a snapshot that has got to a stage
has passed the checks before it: not finished, signed with the digest of
its own spec or flagged, backed up, with an entrypoint. A late pass of an old
snapshot then writes what is still recorded, because records are frozen.

Almost every action changes `op` in the same way: not at all,
to a new version that keeps the records, to a new incarnation, or to none. The proof
shows once that each such move keeps every version a version and both
properties true (the lemmas on moves), then shows for each action which move it
makes and that its snapshot and stage stay consistent. The action properties
follow from `Inv` at each step: an accepted update is an update of a fresh
snapshot, a fresh snapshot is the stored object, and no stage writes over a
status that is final.

**The refinement.** `LifecycleProofs` first reads the stages into two tables: what a pass may
write (`Writes`) and where it may go next (`Follows`). `LifecycleInv` adds to `Inv` that
what runs has recorded everything, and that the end of a job is asked only of what has a
job. Each change of the stored object is then one step of `OpsLifecycle` or
leaves its phase and its frozen inputs alone. Projected to the label, the same step is
one of the contract (`LifeStepIsContract`).

**OperatorProofs.** `PodsInv` bounds every pod that a cache, a snapshot or a pass
knows of by the last one, so two different ones mean a second pod. `PendingInv`
says what each replica has in hand (`InHand`); that no update leaves the cache as it was is
what makes an event due. `AloneInv` is the invariant of the only replica, whose
cache is never behind its snapshot: an entrypoint that is recorded is there and its own,
and a finished operation leaves behind only snapshots that cannot get as far as a
job (`Stuck`).

**Fleet.** The bound on unfinished operations is not inductive, because the webhook
does not see a request between its own answer and the storing. `AdmissionInv` counts those
too (`Coming`). The webhook lets a request in only when no other name has an unfinished
operation, so that all that is coming then has a request in the API server, at most
`MaxRequests`; a request that a missed review lets in adds one, together with the fault
that it is. Every other step only ends or removes operations (`Shrinks`). With one request
and no such answer the bound is one. `ConditionsInv` makes
`ConditionsNeverRegress` inductive. What a condition says of an operation that exists is
`Truthful`: a final status it reports is the operation's. A pass reads the
Cluster before it lists the operations, and so, if the Cluster still has the
resourceVersion it read, the conditions of the pass are `Newer` than the stored ones:
they contradict none that tells of an end. That is what makes the refusal of a
stale write enough. Uids that are not used twice (`UidsOK`) keep a deleted
operation's conditions from being taken for those of another.

`CleanupProofs` counts. The order of the clean-up is total, so the places of the
operations are all of `0 .. n-1` (`PlacesFill`) and those before the limit make up the limit.
While the pass deletes, `CleanupInv` says that what it does *not* mean to delete makes
up the limit, together with what users have removed: deletions are of the rest, and
new operations, also under a name that is to be deleted, only add to what is counted.

For the lifecycle, each step is read as what it does to one name (`OpsStep`): at most one
turn of it, and at most one uid for another name. `StartedInv` gives what the phases stand for.

**Airgap.** `OnlyPublished` is about what is stored; a status travels through the
cached objects, the pass of either controller and their lists. `CopiesDue` says that each of these
copies has only versions that were published for a release of *its* Manifest,
`SourcesPublished` that what is merged and into what is merged fit. `ListedCurrent` says
that a listed Manifest that is still current has the stored versions, so that a write of
the whole status changes none of them. `CacheInv` is the safety half of `VersionsArrive`: a
cached object is ahead of what is stored only while a merge is in progress that has exactly
these versions and a copy that is still current, or the handler is about to
replace it. A refused write means that the Manifest was changed after it was read, so the handler
is due, and the object is merged into again; only a failed call leaves nobody to do so.

**Bootstrap and Keys.** Only the stored certificate gets to a server, to a callback past
the reading of the Secret, or into the configuration (`Agreed`). A process that is
about to publish has stored what it will publish, and once there is a private
key no copy of `kubean-config` is current, so that none can be written (`KeysInv`).

`NoStall` and `NothingForgotten` are the safety halves of `ComesUp` and `Published`: the next
step that gets things done is always possible, and what remains for TLC is that fairness takes
it. A callback of the admission process gives up when another pod was faster, which is only
right because that pod has done the work or has a callback that will (`Late`). `StallInv` keeps
this true: where leases are lost, callbacks do not stop; where pods restart, only the holder of the
lease has ever led (`LeaseInv`), so that nobody has left the work to a pod that stops.

**Only model-checked:** the liveness properties, which are out of the prover's reach:
`SecondPodStopped`, `ModificationNoticed`, `Completes`, `NoLeftovers`, `Converges`,
`VersionsArrive`, `ImagesArrive`, `LocalServiceArrives`, `ComesUp`, `Published`. Every
invariant and every action property that a passing run checks is proved.

## 5. Findings

1. `adopted`. A job is found by name and adopted whoever owns it, so an operation that is
   deleted and created again while its old job is being collected follows the old
   job, and ends `Failed` when that one is collected.
2. `extraargs`. The digest does not cover `spec.extraArgs`: they can be changed
   before the script is rendered and the change is not flagged.
3. `starved`. A ConfigMap of local services that leaves out the scheme differs from what is
   stored on every pass: the first Manifest is written for ever, the others never get
   the local services, and no Manifest its image.
4. `unretried`. Versions are merged into the cached object before they are written. After a
   failed call they look as if they were there, and are not written again until the
   Manifest changes or the process restarts.

The lines that each contradicts are quoted in `PROJECT.json`.

Not runs, but shown while modelling:

- An edit to an invalid image fails an operation while its job goes on: the image is
  checked on every pass (`FinishedMeansJobEnded` leaves out specs that have changed).
- The clean-up keeps operations that run when it lists them; one that starts before it
  is deleted is deleted, with its job.
- Two operations of one Cluster that are created at the same time are both admitted
  (`MaxRequests = 2`).
- A single failed read of `kubean-config` makes the clean-up of that pass use the limit 30
  however high the configured one is (`KeepsLimit` allows for it).
- A `kubean-pubkey` left by an earlier installation does not fit the new private key, and
  no later start looks at it (`KeysFit` is stated for the first installation).

## 6. Not modelled

- **Generated code** (`api/generated/`, the deepcopy and registration code beside the
  API types): clientsets, informers and listers without logic of their own. Of the
  13,800 lines of Go in `src/` that are neither vendored nor tests, about 10,100 are generated, and the program
  uses none of the generated informers and listers; the calls that go through the
  clientsets are steps of the modules that make them. The map therefore covers about two thirds of the
  hand-written lines and less than a fifth of all.
- **The text of the entrypoint script** (`pkg/util/entrypoint/`): formatting without
  state. Whether a spec is rendered or refused is modelled (`ValidArgs`).
- **X.509** (`pkg/util/certmanager.go`): pure. A call makes a certificate unlike all others.
- **Flags, set-up of clients, logging** of the two processes: no state after the start.
- **Playbooks, charts, artifact and build scripts**: they run inside jobs or at release time. Of the
  charts, the keys and the empty webhook configuration are modelled, because the operator meets them.
- **References that users fill in** in a ClusterOperation, **owners of the ConfigMaps of custom
  actions**, and listings of **more than twelve operations**, which the code sorts with a
  sort that is not stable: the hazards that they bring are listed in `PROJECT.json`
  without a property.

What could come next: proofs for hand-overs between two replicas of what is proved here for one
(it needs what leader election promises, which the code does not fence); the safety halves of
the other liveness properties, as for the start-up and the keys; a model of the
owners of shared ConfigMaps.
