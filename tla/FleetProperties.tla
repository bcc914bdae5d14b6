-------------------------- MODULE FleetProperties --------------------------
(***************************************************************************)
(* The properties of Fleet.                                                *)
(***************************************************************************)
EXTENDS Fleet

\* As long as creation requests come one after the other and the webhook is
\* always asked, a Cluster has at most one operation that has not ended.
AtMostOneUnfinished == \A m, n \in Names : Unfinished(m) /\ Unfinished(n) => m = n

\* However many requests the API server works on at once, there are never more
\* unfinished operations than these, and one for each request that a webhook that
\* could not be asked has let through: those who race do not add up over time.
AdmissionBound ==
    Cardinality({n \in Names : Unfinished(n)})
        <= MaxRequests + IF FailurePolicy = "Ignore" THEN faults ELSE 0

Smaller(a, b) == IF a <= b THEN a ELSE b

\* The operation that a pass of the cluster controller deletes in this step.
Deleted == {n \in Labelled : ops'[n].uid = 0 /\ removed' = removed}

\* The limit that a pass may find at least.
LeastLimit == Smaller(BackEndLimit(Limit), BackEndLimit(0))

\* With one replica, the clean-up never deletes more than the excess: what is
\* left, and what the users have removed themselves, makes up the limit (or the
\* default limit, which applies when the configuration cannot be read).
KeepsLimit ==
    [][Deleted # {} => Cardinality(Labelled \ Deleted) + removed
                         >= LeastLimit]_vars

\* Conditions do not go back: once the Cluster reports how a started operation
\* has ended, no late pass of another replica reports it differently.
ConditionsNeverRegress ==
    [][\A c \in cluster.conditions, d \in cluster'.conditions :
         c.start # 0 /\ c.start = d.start /\ c.status \in Final => d = c]_vars

\* In the end there is no excess and the Cluster reports every operation as it
\* is, and owns its inputs.
Converges == <>[](/\ Cardinality(Labelled) <= BackEndLimit(Limit)
                  /\ cluster.conditions = NewConditions
                  /\ owned)

-----------------------------------------------------------------------------
(* The lifecycle of an operation, as far as it matters here. *)

Phase(n) == IF ~Exists(n) THEN "Absent"
            ELSE IF ops[n].status = "" THEN "Pending" ELSE ops[n].status

Lifecycle(n) == INSTANCE OpsLifecycle WITH
                    Inputs <- {"label"}, Given <- {"label"},
                    issued <- lastUid, incarnation <- ops[n].uid, phase <- Phase(n),
                    frozen <- IF ops[n].labelled THEN {"label"} ELSE {}

\* Whatever the users, the webhook and the cluster controller do, every name goes
\* through the lifecycle that the clusterops controller implements: a clean-up or
\* a late answer never gives a name an operation that runs, or that others had.
FollowsLifecycle ==
    /\ \A n \in Names : Lifecycle(n)!LInit
    /\ [][\A n \in Names : Lifecycle(n)!LNext \/ UNCHANGED Lifecycle(n)!lvars]_vars

-----------------------------------------------------------------------------
(* The inductive invariants behind the safety properties. *)

\* The requests in the API server, and the operations that are unfinished or will be.
Active == {n \in Names : requests[n].state # "none"}
Coming == {n \in Names : Unfinished(n) \/ requests[n].state = "store"}

\* What is coming is counted, not only what has come: between the webhook's answer
\* and the storing, a request is not among the operations that the next one lists.
AdmissionInv ==
    /\ TypeOK
    /\ Cardinality(Active) <= MaxRequests
    /\ Cardinality(Coming)
         <= MaxRequests + IF FailurePolicy = "Ignore" THEN faults ELSE 0

\* What the conditions C say of an operation that exists in o is final there too.
Truthful(C, o, u) ==
    \A c \in C : c.start # 0 =>
        /\ c.start <= u
        /\ \A n \in Names : o[n].uid = c.start =>
             c.op = n /\ (c.status \in Final => o[n].status = c.status)

\* The conditions D do not contradict what C says has ended.
Newer(C, D) == \A c \in C, d \in D :
                 c.start # 0 /\ c.start = d.start /\ c.status \in Final => d = c

UidsOK == \A n \in Names : /\ ops[n].uid <= lastUid
                           /\ \A m \in Names : Exists(n) /\ ops[n].uid = ops[m].uid => m = n

\* What runs has its label, what has been started is past waiting, and of what does
\* not exist there is nothing.
StartedInv == \A n \in Names :
                /\ ops[n].status = "Running" => ops[n].labelled /\ ops[n].started
                /\ ops[n].started => ops[n].status # ""
                /\ ~Exists(n) => ops[n] = NoOperation

\* While the only replica r deletes, what it does not mean to delete makes up the limit.
CleanupInv(r) ==
    At(r, "delete") => Cardinality(Labelled \ pass[r].excess) + removed >= LeastLimit

\* The Cluster that a pass has read is listed before the operations: if it is still
\* stored as it was read, the conditions of the pass are the newer ones.
ConditionsInv ==
    /\ TypeOK
    /\ UidsOK
    /\ 1 <= cluster.rv
    /\ Truthful(cluster.conditions, ops, lastUid)
    /\ Newer(cluster.conditions, cluster.conditions)
    /\ \A p \in Replicas :
         /\ Truthful(pass[p].conditions, ops, lastUid)
         /\ Newer(pass[p].conditions, pass[p].conditions)
         /\ cache[p].rv <= cluster.rv /\ pass[p].cluster.rv <= cluster.rv
         /\ At(p, "update") /\ pass[p].cluster.rv = cluster.rv =>
              Newer(cluster.conditions, pass[p].conditions)
=============================================================================
