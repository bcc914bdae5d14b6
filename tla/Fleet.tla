------------------------------- MODULE Fleet -------------------------------
(***************************************************************************)
(* The ClusterOperations of one Cluster: the admission webhook that lets   *)
(* them in, the cluster controller that removes the excess ones and        *)
(* reports the others in the Cluster's status, and the clusterops          *)
(* controller as ClusterOps promises it to be: an operation gets its       *)
(* Cluster's label, then starts, then ends once.                           *)
(*                                                                         *)
(* A pass of the cluster controller keeps the Cluster it has read from its *)
(* cache; it lists the operations from the API server, twice, and every    *)
(* call is a step.  It always asks to run again (RequeueAfter), so a       *)
(* replica that is idle may always start a pass.                           *)
(*                                                                         *)
(* Listings, and the conditions made from them, are sets: their order only *)
(* decides which operations are in excess, and that is kept.               *)
(***************************************************************************)
EXTENDS Integers, FiniteSets

CONSTANTS
    Replicas,       \* the operator processes that believe they are the leader
    Names,          \* names of operations
    Scores,         \* values of the annotation eliminate-score
    Labels,         \* whether users label an operation with its Cluster: booleans
    Limit,          \* CLUSTER_OPERATIONS_BACKEND_LIMIT, 0 if it is no number
    DefaultLimit,   \* DefaultClusterOperationsBackEndLimit
    MaxLimit,       \* MaxClusterOperationsBackEndLimit
    FailurePolicy,  \* of the webhook: Fail or Ignore
    MaxRequests,    \* bound: requests in the API server at once
    MaxUid,         \* bound: operations created
    MaxEdits,       \* bound: operations removed or scored by users
    MaxFaults       \* bound: failed calls and operator crashes

ASSUME ReplicasAssumption == Replicas # {}
ASSUME NamesAssumption == IsFiniteSet(Names)
ASSUME ScoresAssumption == Scores \subseteq Int /\ Scores # {}
ASSUME LabelsAssumption == Labels \subseteq BOOLEAN
ASSUME LimitAssumption == /\ Limit \in Int
                          /\ DefaultLimit \in Nat \ {0} /\ MaxLimit \in Nat \ {0}
ASSUME FailurePolicyAssumption == FailurePolicy \in {"Fail", "Ignore"}
ASSUME BoundsAssumption == /\ MaxRequests \in Nat /\ MaxUid \in Nat
                           /\ MaxEdits \in Nat /\ MaxFaults \in Nat

Final == {"Succeeded", "Failed"}
Statuses == {"", "Running"} \cup Final

\* A ClusterOperation; uid 0 is none.  Uids are given out in the order of the
\* creation times, which the code compares.
Operations == [uid: Nat, score: Scores, labelled: BOOLEAN,
               started: BOOLEAN, status: Statuses]

NoOperation == [uid |-> 0, score |-> CHOOSE s \in Scores : TRUE,
                labelled |-> FALSE, started |-> FALSE, status |-> ""]

\* A condition of the Cluster; the uid stands for the start time, 0 for none.
ClusterConditions == [op: Names, start: Nat, status: Statuses]

Clusters == [rv: Nat, conditions: SUBSET ClusterConditions]

VARIABLES
    ops,        \* ops[n]: the operation with name n in the API server
    requests,   \* requests[n]: a request to create n: none, or what it would be
    lastUid,    \* the last uid given out
    cluster,    \* the Cluster in the API server
    owned,      \* the Cluster owns its inputs
    cache,      \* cache[p]: the Cluster in the cache of replica p
    pass,       \* pass[p]: the pass that replica p runs
    edits,      \* edits made so far
    removed,    \* of these, removals of operations
    faults      \* faults so far

vars == <<ops, requests, lastUid, cluster, owned, cache, pass, edits,
          removed, faults>>
users == <<requests, lastUid, edits, removed>>

\* A pass: its next step, the Cluster it has read, what it has decided.
Passes == [at: {"idle", "clean", "delete", "status", "update", "own"},
           cluster: Clusters, excess: SUBSET Names,
           conditions: SUBSET ClusterConditions]

NoRequest == [state |-> "none", score |-> NoOperation.score, labelled |-> FALSE]
Requests == [state: {"none", "review", "store"}, score: Scores, labelled: BOOLEAN]

NewCluster == [rv |-> 1, conditions |-> {}]
Idle == [at |-> "idle", cluster |-> NewCluster, excess |-> {}, conditions |-> {}]

TypeOK ==
    /\ ops \in [Names -> Operations]
    /\ requests \in [Names -> Requests]
    /\ lastUid \in Nat
    /\ cluster \in Clusters
    /\ owned \in BOOLEAN
    /\ cache \in [Replicas -> Clusters]
    /\ pass \in [Replicas -> Passes]
    /\ edits \in Nat /\ removed \in Nat /\ faults \in Nat

Init ==
    /\ ops = [n \in Names |-> NoOperation]
    /\ requests = [n \in Names |-> NoRequest]
    /\ lastUid = 0
    /\ cluster = NewCluster
    /\ owned = FALSE
    /\ cache = [p \in Replicas |-> NewCluster]
    /\ pass = [p \in Replicas |-> Idle]
    /\ edits = 0 /\ removed = 0 /\ faults = 0

Exists(n) == ops[n].uid # 0
Unfinished(n) == Exists(n) /\ ops[n].status \notin Final
Labelled == {n \in Names : Exists(n) /\ ops[n].labelled}

-----------------------------------------------------------------------------
(* The cluster controller. *)

BackEndLimit(value) == IF value <= 0 THEN DefaultLimit
                       ELSE IF value >= MaxLimit THEN MaxLimit ELSE value

\* Lowest score first, then newest: the second sort keeps the order of the first
\* as long as there are no more than twelve operations to sort.
Precedes(m, n) ==
    \/ ops[m].score < ops[n].score
    \/ /\ ops[m].score = ops[n].score
       /\ ops[m].uid > ops[n].uid

\* The place of n in the sorted listing, from 0.
Place(n) == Cardinality({m \in Labelled : Precedes(m, n)})

\* Mutant: one more than the excess is deleted.
Excess_OffByOne(limit) ==
    {n \in Labelled : Place(n) + 1 >= limit /\ ops[n].status # "Running"}

\* The operations after the first limit ones, but those that run are kept.
Excess(limit) == {n \in Labelled : Place(n) >= limit /\ ops[n].status # "Running"}

\* Mutant: an operation that is pending is reported as such.
Condition_Pending(n) == [op |-> n, start |-> IF ops[n].started THEN ops[n].uid ELSE 0,
                         status |-> IF ops[n].status = "" THEN "Pending" ELSE ops[n].status]

Condition(n) == [op |-> n, start |-> IF ops[n].started THEN ops[n].uid ELSE 0,
                 status |-> ops[n].status]

NewConditions == {Condition(n) : n \in Labelled}

\* Mutant: only the operations are compared, not how they are.
CompareClusterConditions_Names(A, B) == {c.op : c \in A} = {c.op : c \in B}

CompareClusterConditions(A, B) == A = B

At(p, s) == pass[p].at = s
Goto(p, s) == pass' = [pass EXCEPT ![p].at = s]
Return(p) == pass' = [pass EXCEPT ![p] = Idle]

Reconcile(p) ==
    /\ At(p, "idle")
    /\ pass' = [pass EXCEPT ![p].at = "clean", ![p].cluster = cache[p]]
    /\ UNCHANGED <<ops, users, cluster, owned, cache, faults>>

\* CleanExcessClusterOps: list the operations; more than the limit are excess.
\* A configuration that cannot be read counts as none: the default applies.
ListExcess(p) ==
    /\ At(p, "clean")
    /\ \E limit \in {BackEndLimit(Limit), BackEndLimit(0)} :
         /\ \/ limit = BackEndLimit(Limit) /\ UNCHANGED faults
            \/ limit # BackEndLimit(Limit) /\ faults < MaxFaults /\ faults' = faults + 1
         /\ IF Cardinality(Labelled) <= limit THEN Goto(p, "status")
            ELSE IF Excess(limit) = {} THEN Return(p)
            ELSE pass' = [pass EXCEPT ![p] = [Idle EXCEPT !.at = "delete",
                                                            !.excess = Excess(limit)]]
    /\ UNCHANGED <<ops, users, cluster, owned, cache>>

\* After the last deletion the pass returns.
DoneWith(p, n) == IF pass[p].excess = {n} THEN Return(p)
                  ELSE pass' = [pass EXCEPT ![p].excess = @ \ {n}]

\* It is deleted by its name, whatever has that name by now.
DeleteExcess(p) ==
    /\ At(p, "delete")
    /\ \E n \in pass[p].excess : /\ ops' = [ops EXCEPT ![n] = NoOperation]
                                 /\ DoneWith(p, n)
    /\ UNCHANGED <<users, cluster, owned, cache, faults>>

\* UpdateStatus lists the operations again and compares with the Cluster read.
ListConditions(p) ==
    /\ At(p, "status")
    /\ IF CompareClusterConditions(pass[p].cluster.conditions, NewConditions)
       THEN pass' = [pass EXCEPT ![p] = [Idle EXCEPT !.at = "own"]]
       ELSE pass' = [pass EXCEPT ![p].at = "update", ![p].conditions = NewConditions]
    /\ UNCHANGED <<ops, users, cluster, owned, cache, faults>>

\* Mutant: the last writer wins.
UpdateStatus_LastWriterWins(p) ==
    /\ At(p, "update")
    /\ cluster' = [rv |-> cluster.rv + 1, conditions |-> pass[p].conditions]
    /\ pass' = [pass EXCEPT ![p] = [Idle EXCEPT !.at = "own"]]
    /\ UNCHANGED <<ops, users, owned, cache, faults>>

\* The update is refused when the Cluster has changed since it was read.
UpdateStatus(p) ==
    /\ At(p, "update")
    /\ \/ /\ cluster.rv = pass[p].cluster.rv
          /\ cluster' = [rv |-> cluster.rv + 1, conditions |-> pass[p].conditions]
          /\ pass' = [pass EXCEPT ![p] = [Idle EXCEPT !.at = "own"]]
       \/ /\ cluster.rv # pass[p].cluster.rv
          /\ UNCHANGED cluster
          /\ Return(p)
    /\ UNCHANGED <<ops, users, owned, cache, faults>>

UpdateOwnReferenceToCluster(p) ==
    /\ At(p, "own")
    /\ owned' = TRUE
    /\ Return(p)
    /\ UNCHANGED <<ops, users, cluster, cache, faults>>

Stage(p) == \/ Reconcile(p) \/ ListExcess(p) \/ DeleteExcess(p)
            \/ ListConditions(p) \/ UpdateStatus(p) \/ UpdateOwnReferenceToCluster(p)

CacheSync(p) ==
    /\ cache[p] # cluster
    /\ cache' = [cache EXCEPT ![p] = cluster]
    /\ UNCHANGED <<ops, users, cluster, owned, pass, faults>>

\* A failed deletion is ignored, any other failed call ends the pass.
FailedCall(p) ==
    /\ faults < MaxFaults
    /\ faults' = faults + 1
    /\ \/ At(p, "delete") /\ \E n \in pass[p].excess : DoneWith(p, n)
       \/ pass[p].at \in {"clean", "status", "update", "own"} /\ Return(p)
    /\ UNCHANGED <<ops, users, cluster, owned, cache>>

Crash(p) ==
    /\ faults < MaxFaults
    /\ faults' = faults + 1
    /\ Return(p)
    /\ cache' = [cache EXCEPT ![p] = cluster]
    /\ UNCHANGED <<ops, users, cluster, owned>>

-----------------------------------------------------------------------------
(* The users, the API server and the webhook. *)

Submit(n, score, labelled) ==
    /\ requests[n].state = "none"
    /\ Cardinality({m \in Names : requests[m].state # "none"}) < MaxRequests
    /\ lastUid < MaxUid
    /\ requests' = [requests EXCEPT ![n] = [state |-> "review", score |-> score,
                                            labelled |-> labelled]]
    /\ UNCHANGED <<ops, lastUid, cluster, owned, cache, pass, edits, removed, faults>>

\* Mutant: an operation that has not started yet does not count.
Allowed_Running(n) == \A m \in Names \ {n} : Exists(m) => ops[m].status # "Running"

\* Another operation of the Cluster that has not ended is a reason to refuse.
Allowed(n) == \A m \in Names \ {n} : ~Unfinished(m)

Answer(n, allowed) ==
    /\ requests[n].state = "review"
    /\ requests' = IF allowed THEN [requests EXCEPT ![n].state = "store"]
                   ELSE [requests EXCEPT ![n] = NoRequest]
    /\ UNCHANGED <<ops, lastUid, cluster, owned, cache, pass, edits, removed>>

\* AdmissionReviewHandler lists all operations and answers.
Review(n) == Answer(n, Allowed(n)) /\ UNCHANGED faults

\* The webhook cannot be reached, or cannot list: its failure policy decides.
NoReview(n) ==
    /\ faults < MaxFaults
    /\ faults' = faults + 1
    /\ Answer(n, FailurePolicy = "Ignore")

\* The API server stores what was let in, unless the name is taken.
Store(n) ==
    /\ requests[n].state = "store"
    /\ requests' = [requests EXCEPT ![n] = NoRequest]
    /\ \/ Exists(n) /\ UNCHANGED <<ops, lastUid>>
       \/ /\ ~Exists(n) /\ lastUid < MaxUid
          /\ ops' = [ops EXCEPT ![n] =
                       [NoOperation EXCEPT !.uid = lastUid + 1,
                           !.score = requests[n].score,
                           !.labelled = requests[n].labelled]]
          /\ lastUid' = lastUid + 1
    /\ UNCHANGED <<cluster, owned, cache, pass, edits, removed, faults>>

RemoveOps(n) ==
    /\ Exists(n) /\ edits < MaxEdits
    /\ edits' = edits + 1 /\ removed' = removed + 1
    /\ ops' = [ops EXCEPT ![n] = NoOperation]
    /\ UNCHANGED <<requests, lastUid, cluster, owned, cache, pass, faults>>

Score(n, score) ==
    /\ Exists(n) /\ ops[n].score # score /\ edits < MaxEdits
    /\ edits' = edits + 1
    /\ ops' = [ops EXCEPT ![n].score = score]
    /\ UNCHANGED <<requests, lastUid, cluster, owned, cache, pass, removed, faults>>

-----------------------------------------------------------------------------
(* The clusterops controller, one step for each of its promises. *)

Become(n, o) == /\ ops' = [ops EXCEPT ![n] = o]
                /\ UNCHANGED <<users, cluster, owned, cache, pass, faults>>

\* BackUpDataRef labels the operation with its Cluster.
Label(n) == /\ Unfinished(n) /\ ~ops[n].labelled
            /\ Become(n, [ops[n] EXCEPT !.labelled = TRUE])

\* Mutant: the job does not wait for the Cluster's inputs.
Start_Unlabelled(n) == /\ Exists(n) /\ ops[n].status = ""
                       /\ Become(n, [ops[n] EXCEPT !.status = "Running", !.started = TRUE])

\* The job is recorded: JobMountsBackups says that the label is there by then.
Start(n) == /\ Exists(n) /\ ops[n].status = "" /\ ops[n].labelled
            /\ Become(n, [ops[n] EXCEPT !.status = "Running", !.started = TRUE])

\* The job has ended, or a check has failed: FinalStatusIsFinal.
End(n, status) == /\ Unfinished(n)
                  /\ status = "Succeeded" => ops[n].started
                  /\ Become(n, [ops[n] EXCEPT !.status = status])

Advance(n) == Label(n) \/ Start(n) \/ \E s \in Final : End(n, s)

Next ==
    \/ \E p \in Replicas : Stage(p) \/ CacheSync(p) \/ FailedCall(p) \/ Crash(p)
    \/ \E n \in Names :
         \/ \E s \in Scores : Score(n, s) \/ \E l \in Labels : Submit(n, s, l)
         \/ Review(n) \/ NoReview(n) \/ Store(n) \/ RemoveOps(n) \/ Advance(n)

Spec == Init /\ [][Next]_vars

\* The worker goes on, the informer delivers and every operation ends.
Fairness == /\ \A p \in Replicas : WF_vars(Stage(p)) /\ WF_vars(CacheSync(p))
            /\ \A n \in Names : WF_vars(Advance(n)) /\ WF_vars(\E s \in Final : End(n, s))

FairSpec == Spec /\ Fairness
=============================================================================
