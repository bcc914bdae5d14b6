---------------------------- MODULE FleetProofs ----------------------------
(***************************************************************************)
(* Theorems about Fleet: its types, that requests which come one after the *)
(* other leave at most one unfinished operation, and that the Cluster's    *)
(* conditions never go back.                                               *)
(***************************************************************************)
EXTENDS FleetProperties, FiniteSetTheorems, TLAPS

LEMMA SomeScore == NoOperation.score \in Scores
  BY ScoresAssumption DEF NoOperation

LEMMA NoneTyped == /\ NoOperation \in Operations /\ NoRequest \in Requests
                   /\ NewCluster \in Clusters /\ Idle \in Passes
  <1>1. NoOperation \in Operations
    BY ScoresAssumption DEF NoOperation, Operations, Statuses
  <1>2. NoRequest \in Requests
    BY SomeScore DEF NoRequest, Requests
  <1>3. NewCluster \in Clusters
    BY DEF NewCluster, Clusters
  <1>4. Idle \in Passes
    BY <1>3 DEF Idle, Passes
  <1> QED  BY <1>1, <1>2, <1>3, <1>4

\* A pass of a replica is typed when its steps are.
LEMMA ReturnTyped == ASSUME pass \in [Replicas -> Passes], NEW p \in Replicas, Return(p)
                     PROVE  pass' \in [Replicas -> Passes]
  BY NoneTyped DEF Return

LEMMA GotoTyped ==
    ASSUME pass \in [Replicas -> Passes], NEW p \in Replicas,
           NEW s \in {"idle", "clean", "delete", "status", "update", "own"}, Goto(p, s)
    PROVE  pass' \in [Replicas -> Passes]
  BY DEF Goto, Passes

LEMMA DoneTyped ==
    ASSUME pass \in [Replicas -> Passes], NEW p \in Replicas, NEW n, DoneWith(p, n)
    PROVE  pass' \in [Replicas -> Passes]
  <1>1. CASE pass[p].excess = {n}
    BY <1>1, ReturnTyped DEF DoneWith
  <1>2. CASE pass[p].excess # {n}
    BY <1>2 DEF DoneWith, Passes
  <1> QED  BY <1>1, <1>2

LEMMA ConditionsTyped == ASSUME TypeOK PROVE NewConditions \subseteq ClusterConditions
  BY DEF TypeOK, NewConditions, Condition, Labelled, ClusterConditions, Operations

\* What the other parts of an action leave as it is.
LEMMA StageTyped == ASSUME TypeOK, NEW p \in Replicas, Stage(p) PROVE TypeOK'
  <1> USE DEF TypeOK, users
  <1>1. CASE Reconcile(p)
    BY <1>1 DEF Reconcile, Passes
  <1>2. CASE ListExcess(p)
    <2>0. faults' \in Nat
      BY <1>2 DEF ListExcess
    <2>1. PICK limit \in {BackEndLimit(Limit), BackEndLimit(0)} :
            /\ IF Cardinality(Labelled) <= limit THEN Goto(p, "status")
               ELSE IF Excess(limit) = {} THEN Return(p)
               ELSE pass' = [pass EXCEPT ![p] = [Idle EXCEPT !.at = "delete",
                                                            !.excess = Excess(limit)]]
      BY <1>2, Zenon DEF ListExcess
    <2>2. CASE Cardinality(Labelled) <= limit
      BY <1>2, <2>0, <2>1, <2>2, GotoTyped DEF ListExcess
    <2>3. CASE ~(Cardinality(Labelled) <= limit) /\ Excess(limit) = {}
      BY <1>2, <2>0, <2>1, <2>3, ReturnTyped DEF ListExcess
    <2>4. CASE ~(Cardinality(Labelled) <= limit) /\ Excess(limit) # {}
      <3>1. Excess(limit) \subseteq Names
        BY DEF Excess, Labelled
      <3>2. [Idle EXCEPT !.at = "delete", !.excess = Excess(limit)] \in Passes
        BY <3>1, NoneTyped DEF Passes
      <3> QED  BY <1>2, <2>0, <2>1, <2>4, <3>2 DEF ListExcess
    <2> QED  BY <2>2, <2>3, <2>4
  <1>3. CASE DeleteExcess(p)
    <2>1. PICK n \in pass[p].excess : /\ ops' = [ops EXCEPT ![n] = NoOperation]
                                      /\ DoneWith(p, n)
      BY <1>3 DEF DeleteExcess
    <2>2. pass' \in [Replicas -> Passes]
      BY <2>1, DoneTyped
    <2> QED  BY <1>3, <2>1, <2>2, NoneTyped DEF DeleteExcess
  <1>4. CASE ListConditions(p)
    <2>1. CASE CompareClusterConditions(pass[p].cluster.conditions, NewConditions)
      BY <1>4, <2>1, NoneTyped DEF ListConditions, Passes
    <2>2. CASE ~CompareClusterConditions(pass[p].cluster.conditions, NewConditions)
      BY <1>4, <2>2, ConditionsTyped DEF ListConditions, Passes
    <2> QED  BY <2>1, <2>2
  <1>5. CASE UpdateStatus(p)
    <2>1. CASE cluster.rv = pass[p].cluster.rv /\ cluster' = [rv |-> cluster.rv + 1, conditions |-> pass[p].conditions]
               /\ pass' = [pass EXCEPT ![p] = [Idle EXCEPT !.at = "own"]]
      BY <1>5, <2>1, NoneTyped DEF UpdateStatus, Passes, Clusters
    <2>2. CASE UNCHANGED cluster /\ Return(p)
      BY <1>5, <2>2, ReturnTyped DEF UpdateStatus
    <2> QED  BY <1>5, <2>1, <2>2 DEF UpdateStatus
  <1>6. CASE UpdateOwnReferenceToCluster(p)
    BY <1>6, ReturnTyped DEF UpdateOwnReferenceToCluster
  <1> QED  BY <1>1, <1>2, <1>3, <1>4, <1>5, <1>6 DEF Stage

LEMMA ReplicaTyped ==
    ASSUME TypeOK, NEW p \in Replicas, CacheSync(p) \/ FailedCall(p) \/ Crash(p)
    PROVE  TypeOK'
  <1> USE DEF TypeOK, users
  <1>1. CASE CacheSync(p)
    BY <1>1 DEF CacheSync
  <1>2. CASE FailedCall(p)
    <2>1. pass' \in [Replicas -> Passes]
      BY <1>2, ReturnTyped, DoneTyped DEF FailedCall
    <2> QED  BY <1>2, <2>1 DEF FailedCall
  <1>3. CASE Crash(p)
    BY <1>3, ReturnTyped DEF Crash
  <1> QED  BY <1>1, <1>2, <1>3

LEMMA AnswerTyped ==
    ASSUME TypeOK, NEW n \in Names, NEW allowed \in BOOLEAN, Answer(n, allowed), faults' \in Nat
    PROVE  TypeOK'
  BY NoneTyped DEF TypeOK, Answer, Requests

LEMMA NameTyped ==
    ASSUME TypeOK, NEW n \in Names,
           \/ \E s \in Scores : Score(n, s) \/ \E l \in Labels : Submit(n, s, l)
           \/ Review(n) \/ NoReview(n) \/ Store(n) \/ RemoveOps(n) \/ Advance(n)
    PROVE  TypeOK'
  <1> USE DEF TypeOK, users
  <1>1. ASSUME NEW s \in Scores, Score(n, s) PROVE TypeOK'
    BY <1>1 DEF Score, Operations
  <1>2. ASSUME NEW s \in Scores, NEW l \in Labels, Submit(n, s, l) PROVE TypeOK'
    BY <1>2, LabelsAssumption DEF Submit, Requests
  <1>3. CASE Review(n)
    BY <1>3, AnswerTyped DEF Review, Allowed
  <1>4. CASE NoReview(n)
    <2>1. faults' \in Nat
      BY <1>4 DEF NoReview
    <2>2. (FailurePolicy = "Ignore") \in BOOLEAN /\ Answer(n, FailurePolicy = "Ignore")
      BY <1>4 DEF NoReview
    <2> QED  BY <2>1, <2>2, AnswerTyped
  <1>5. CASE Store(n)
    <2>1. requests' \in [Names -> Requests]
      BY <1>5, NoneTyped DEF Store
    <2>2. CASE UNCHANGED <<ops, lastUid>>
      BY <1>5, <2>1, <2>2 DEF Store
    <2>3. CASE ops' = [ops EXCEPT ![n] =
                         [NoOperation EXCEPT !.uid = lastUid + 1,
                             !.score = requests[n].score,
                             !.labelled = requests[n].labelled]] /\ lastUid' = lastUid + 1
      <3>1. [NoOperation EXCEPT !.uid = lastUid + 1, !.score = requests[n].score,
                 !.labelled = requests[n].labelled] \in Operations
        <4>1. requests[n].score \in Scores /\ requests[n].labelled \in BOOLEAN
          BY DEF Requests
        <4>2. lastUid + 1 \in Nat
          OBVIOUS
        <4> QED  BY <4>1, <4>2, NoneTyped DEF Operations
      <3> QED  BY <1>5, <2>1, <2>3, <3>1 DEF Store
    <2> QED  BY <1>5, <2>2, <2>3 DEF Store
  <1>6. CASE RemoveOps(n)
    BY <1>6, NoneTyped DEF RemoveOps
  <1>7. CASE Advance(n)
    <2>1. ops[n] \in Operations
      OBVIOUS
    <2>2. ASSUME NEW o \in Operations, Become(n, o) PROVE TypeOK'
      BY <2>2 DEF Become
    <2>3. CASE Label(n)
      <3>1. [ops[n] EXCEPT !.labelled = TRUE] \in Operations
        BY <2>1 DEF Operations
      <3> QED  BY <2>2, <2>3, <3>1 DEF Label
    <2>4. CASE Start(n)
      <3>1. [ops[n] EXCEPT !.status = "Running", !.started = TRUE] \in Operations
        BY <2>1 DEF Operations, Statuses
      <3> QED  BY <2>2, <2>4, <3>1 DEF Start
    <2>5. ASSUME NEW s \in Final, End(n, s) PROVE TypeOK'
      <3>1. [ops[n] EXCEPT !.status = s] \in Operations
        BY <2>1 DEF Operations, Statuses
      <3> QED  BY <2>2, <2>5, <3>1 DEF End
    <2> QED  BY <1>7, <2>3, <2>4, <2>5 DEF Advance
  <1> QED  BY <1>1, <1>2, <1>3, <1>4, <1>5, <1>6, <1>7

LEMMA InitTyped == Init => TypeOK
  <1> SUFFICES ASSUME Init PROVE TypeOK
    OBVIOUS
  <1>1. ops \in [Names -> Operations] /\ requests \in [Names -> Requests]
    BY NoneTyped DEF Init
  <1>2. cache \in [Replicas -> Clusters] /\ pass \in [Replicas -> Passes]
    BY NoneTyped DEF Init
  <1>3. cluster \in Clusters /\ owned \in BOOLEAN
    BY NoneTyped DEF Init
  <1>4. lastUid \in Nat /\ edits \in Nat /\ removed \in Nat /\ faults \in Nat
    BY DEF Init
  <1> QED  BY <1>1, <1>2, <1>3, <1>4 DEF TypeOK

LEMMA StepTyped == TypeOK /\ [Next]_vars => TypeOK'
  <1>1. CASE UNCHANGED vars
    BY <1>1 DEF TypeOK, vars
  <1> QED  BY <1>1, StageTyped, ReplicaTyped, NameTyped DEF Next

\* Every variable keeps its type, whatever the constants.
THEOREM TypeCorrect == Spec => []TypeOK
  BY InitTyped, StepTyped, PTL DEF Spec

-----------------------------------------------------------------------------
(* How many operations are unfinished. *)

\* What the webhook's failure policy adds to the bound.
Missed(f) == IF FailurePolicy = "Ignore" THEN f ELSE 0

LEMMA NamesFinite ==
    /\ IsFiniteSet(Active) /\ Cardinality(Active) \in Nat
    /\ IsFiniteSet(Coming) /\ Cardinality(Coming) \in Nat
  BY NamesAssumption, FS_Subset, FS_CardinalityType DEF Active, Coming

\* A set that gains at most the member n grows by at most one.
LEMMA GainsOne ==
    ASSUME NEW S, NEW T, NEW n, IsFiniteSet(S), T \subseteq S \cup {n}
    PROVE  /\ IsFiniteSet(T) /\ Cardinality(T) \in Nat
           /\ Cardinality(T) <= Cardinality(S) + 1
           /\ n \in S => Cardinality(T) <= Cardinality(S)
  <1>1. IsFiniteSet(S \cup {n}) /\ Cardinality(S) \in Nat
    BY FS_AddElement, FS_CardinalityType
  <1>2. /\ n \in S => Cardinality(S \cup {n}) = Cardinality(S)
        /\ n \notin S => Cardinality(S \cup {n}) = Cardinality(S) + 1
    BY FS_AddElement
  <1>3. /\ IsFiniteSet(T) /\ Cardinality(T) \in Nat
        /\ Cardinality(T) <= Cardinality(S \cup {n})
    BY <1>1, FS_Subset, FS_CardinalityType
  <1> QED  BY <1>1, <1>2, <1>3

\* Nobody comes, and no fault is undone.
Settles == /\ Active' \subseteq Active /\ Coming' \subseteq Coming
           /\ faults' \in Nat /\ faults <= faults'

LEMMA SettlesKeeps ==
    ASSUME AdmissionInv, TypeOK', Settles
    PROVE  AdmissionInv'
  <1>1. /\ Cardinality(Active') <= Cardinality(Active) /\ Cardinality(Active') \in Nat
        /\ Cardinality(Coming') <= Cardinality(Coming) /\ Cardinality(Coming') \in Nat
    BY NamesFinite, FS_Subset, FS_CardinalityType DEF Settles
  <1>2. Missed(faults) \in Nat /\ Missed(faults') \in Nat /\ Missed(faults) <= Missed(faults')
    BY DEF Missed, Settles, AdmissionInv, TypeOK
  <1>3. /\ Cardinality(Active) <= MaxRequests
        /\ Cardinality(Coming) <= MaxRequests + Missed(faults)
    BY DEF AdmissionInv, Missed
  <1>4. /\ Cardinality(Active') <= MaxRequests
        /\ Cardinality(Coming') <= MaxRequests + Missed(faults')
    BY <1>1, <1>2, <1>3, NamesFinite, BoundsAssumption
  <1> QED  BY <1>4 DEF AdmissionInv, Missed

\* Who exists and has not ended only becomes fewer.
Shrinks == \A n \in Names : Unfinished(n)' => Unfinished(n)

LEMMA ShrinksSettles ==
    ASSUME TypeOK, TypeOK', Shrinks, requests' = requests, faults <= faults'
    PROVE  Settles
  BY DEF TypeOK, Shrinks, Settles, Active, Coming

LEMMA StageShrinks == ASSUME TypeOK, NEW p \in Replicas, Stage(p)
                      PROVE  Shrinks /\ requests' = requests /\ faults <= faults'
  <1>1. CASE DeleteExcess(p)
    <2>1. PICK n \in pass[p].excess : ops' = [ops EXCEPT ![n] = NoOperation]
      BY <1>1 DEF DeleteExcess
    <2>2. NoOperation.uid = 0
      BY DEF NoOperation
    <2>3. requests' = requests /\ faults' = faults
      BY <1>1 DEF DeleteExcess, users
    <2> QED  BY <2>1, <2>2, <2>3 DEF Shrinks, Unfinished, Exists, TypeOK
  <1>2. CASE ListExcess(p)
    <2>1. ops' = ops /\ requests' = requests /\ faults' \in {faults, faults + 1}
      BY <1>2 DEF ListExcess, users
    <2> QED  BY <2>1 DEF Shrinks, Unfinished, Exists, TypeOK
  <1>3. CASE \/ Reconcile(p) \/ ListConditions(p)
             \/ UpdateStatus(p) \/ UpdateOwnReferenceToCluster(p)
    <2>1. ops' = ops /\ requests' = requests /\ faults' = faults
      BY <1>3 DEF Reconcile, ListConditions, UpdateStatus,
                  UpdateOwnReferenceToCluster, users
    <2> QED  BY <2>1 DEF Shrinks, Unfinished, Exists, TypeOK
  <1> QED  BY <1>1, <1>2, <1>3 DEF Stage

\* The request n is let in: it is coming, if it was not.
LEMMA LetIn ==
    ASSUME AdmissionInv, TypeOK', NEW n \in Names, requests[n].state = "review",
           requests' = [requests EXCEPT ![n].state = "store"], ops' = ops
    PROVE  Active' = Active /\ Coming' = Coming \cup {n} /\ n \in Active
  BY DEF AdmissionInv, TypeOK, Requests, Active, Coming, Unfinished, Exists

\* The request n is turned down.
LEMMA TurnedDown ==
    ASSUME AdmissionInv, TypeOK', NEW n \in Names,
           requests' = [requests EXCEPT ![n] = NoRequest], ops' = ops, faults <= faults'
    PROVE  Settles
  <1>1. NoRequest.state = "none"
    BY DEF NoRequest
  <1> QED  BY <1>1 DEF AdmissionInv, TypeOK, Settles, Active, Coming, Unfinished, Exists

LEMMA ReviewKeeps ==
    ASSUME AdmissionInv, TypeOK', NEW n \in Names, Review(n)
    PROVE  AdmissionInv'
  <1>0. requests[n].state = "review" /\ ops' = ops /\ faults' = faults /\ faults \in Nat
    BY DEF Review, Answer, AdmissionInv, TypeOK
  <1>1. CASE ~Allowed(n)
    <2>1. requests' = [requests EXCEPT ![n] = NoRequest]
      BY <1>1 DEF Review, Answer
    <2>2. faults <= faults'
      BY <1>0
    <2> QED  BY <1>0, <2>1, <2>2, TurnedDown, SettlesKeeps, Zenon
  <1>2. CASE Allowed(n)
    <2>1. requests' = [requests EXCEPT ![n].state = "store"]
      BY <1>2 DEF Review, Answer
    <2>2. Active' = Active /\ Coming' = Coming \cup {n} /\ n \in Active
      BY <1>0, <2>1, LetIn
    <2>3. Coming \subseteq Active \cup {n}
      BY <1>2 DEF Coming, Active, Allowed
    <2>4. Coming' \subseteq Active
      BY <2>2, <2>3
    <2>5. Cardinality(Coming') <= Cardinality(Active) /\ Cardinality(Coming') \in Nat
      BY <2>4, NamesFinite, FS_Subset, FS_CardinalityType
    <2>6. Missed(faults') \in Nat
      BY <1>0 DEF Missed
    <2>7. /\ Cardinality(Active') <= MaxRequests
          /\ Cardinality(Coming') <= MaxRequests + Missed(faults')
      BY <2>2, <2>5, <2>6, NamesFinite, BoundsAssumption DEF AdmissionInv
    <2> QED  BY <2>7 DEF AdmissionInv, Missed
  <1> QED  BY <1>1, <1>2

LEMMA NoReviewKeeps ==
    ASSUME AdmissionInv, TypeOK', NEW n \in Names, NoReview(n)
    PROVE  AdmissionInv'
  <1>0. requests[n].state = "review" /\ ops' = ops /\ faults' = faults + 1 /\ faults \in Nat
    BY DEF NoReview, Answer, AdmissionInv, TypeOK
  <1>1. CASE FailurePolicy # "Ignore"
    <2>1. requests' = [requests EXCEPT ![n] = NoRequest]
      BY <1>1 DEF NoReview, Answer
    <2>2. faults <= faults'
      BY <1>0
    <2> QED  BY <1>0, <2>1, <2>2, TurnedDown, SettlesKeeps, Zenon
  <1>2. CASE FailurePolicy = "Ignore"
    <2>1. requests' = [requests EXCEPT ![n].state = "store"]
      BY <1>2 DEF NoReview, Answer
    <2>2. Active' = Active /\ Coming' = Coming \cup {n}
      BY <1>0, <2>1, LetIn
    <2>3. Cardinality(Coming') <= Cardinality(Coming) + 1 /\ Cardinality(Coming') \in Nat
      BY <2>2, NamesFinite, GainsOne
    <2>4. /\ Cardinality(Active) <= MaxRequests
          /\ Cardinality(Coming) <= MaxRequests + faults
      BY <1>2 DEF AdmissionInv
    <2>5. /\ Cardinality(Active') <= MaxRequests
          /\ Cardinality(Coming') <= MaxRequests + faults'
      BY <1>0, <2>2, <2>3, <2>4, NamesFinite, BoundsAssumption
    <2> QED  BY <1>2, <2>5 DEF AdmissionInv
  <1> QED  BY <1>1, <1>2

LEMMA SubmitKeeps ==
    ASSUME AdmissionInv, TypeOK', NEW n \in Names, NEW s \in Scores, NEW l \in Labels,
           Submit(n, s, l)
    PROVE  AdmissionInv'
  <1>1. /\ Cardinality(Active) < MaxRequests /\ ops' = ops /\ faults' = faults
        /\ requests[n].state = "none"
    BY DEF Submit, Active
  <1>2. /\ requests'[n].state = "review"
        /\ \A m \in Names \ {n} : requests'[m] = requests[m]
    BY DEF Submit, AdmissionInv, TypeOK
  <1>3. Active' \subseteq Active \cup {n}
    BY <1>2 DEF Active
  <1>4. Coming' = Coming
    BY <1>1, <1>2 DEF Coming, Unfinished, Exists
  <1>5. Cardinality(Active') <= Cardinality(Active) + 1 /\ Cardinality(Active') \in Nat
    BY <1>3, NamesFinite, GainsOne
  <1>6. Cardinality(Active') <= MaxRequests
    BY <1>1, <1>5, NamesFinite, BoundsAssumption
  <1> QED  BY <1>1, <1>4, <1>6 DEF AdmissionInv

LEMMA StoreSettles ==
    ASSUME TypeOK, TypeOK', NEW n \in Names, Store(n)
    PROVE  Settles
  <1>1. NoRequest.state = "none"
    BY DEF NoRequest
  <1>2. /\ requests[n].state = "store" /\ faults' = faults
        /\ requests'[n].state = "none"
        /\ \A m \in Names \ {n} : ops'[m] = ops[m] /\ requests'[m] = requests[m]
    BY <1>1 DEF Store, TypeOK
  <1> QED  BY <1>2 DEF TypeOK, Settles, Active, Coming, Unfinished, Exists

LEMMA AdmissionStep == ASSUME AdmissionInv, [Next]_vars PROVE AdmissionInv'
  <1>0. TypeOK /\ TypeOK' /\ faults \in Nat
    BY StepTyped DEF AdmissionInv, TypeOK
  <1>s. ASSUME Shrinks, requests' = requests, faults <= faults' PROVE AdmissionInv'
    BY <1>0, <1>s, ShrinksSettles, SettlesKeeps
  <1>1. CASE UNCHANGED vars
    BY <1>0, <1>1, <1>s DEF vars, Shrinks, Unfinished, Exists
  <1>2. ASSUME NEW p \in Replicas, Stage(p) PROVE AdmissionInv'
    BY <1>0, <1>2, <1>s, StageShrinks
  <1>3. ASSUME NEW p \in Replicas, CacheSync(p) \/ FailedCall(p) \/ Crash(p)
        PROVE  AdmissionInv'
    <2>1. ops' = ops /\ requests' = requests /\ faults' \in {faults, faults + 1}
      BY <1>3 DEF CacheSync, FailedCall, Crash, users
    <2> QED  BY <1>0, <1>s, <2>1 DEF Shrinks, Unfinished, Exists
  <1>4. ASSUME NEW n \in Names, NEW s \in Scores, Score(n, s) PROVE AdmissionInv'
    <2>1. requests' = requests /\ faults' = faults /\ Shrinks
      BY <1>0, <1>4 DEF Score, Shrinks, Unfinished, Exists, TypeOK
    <2> QED  BY <1>0, <1>s, <2>1
  <1>5. ASSUME NEW n \in Names, NEW s \in Scores, NEW l \in Labels, Submit(n, s, l)
        PROVE  AdmissionInv'
    BY <1>0, <1>5, SubmitKeeps
  <1>6. ASSUME NEW n \in Names, Review(n) \/ NoReview(n) \/ Store(n) PROVE AdmissionInv'
    BY <1>0, <1>6, ReviewKeeps, NoReviewKeeps, StoreSettles, SettlesKeeps
  <1>7. ASSUME NEW n \in Names, RemoveOps(n) PROVE AdmissionInv'
    <2>1. requests' = requests /\ faults' = faults /\ Shrinks
      BY <1>0, <1>7 DEF RemoveOps, Shrinks, Unfinished, Exists, TypeOK, NoOperation
    <2> QED  BY <1>0, <1>s, <2>1
  <1>8. ASSUME NEW n \in Names, Advance(n) PROVE AdmissionInv'
    <2>1. Unfinished(n) /\ \E o : Become(n, o)
      BY <1>8 DEF Advance, Label, Start, End, Unfinished, Final
    <2>2. /\ requests' = requests /\ faults' = faults
          /\ \A m \in Names \ {n} : ops'[m] = ops[m]
      BY <1>0, <2>1 DEF Become, TypeOK, users
    <2> QED  BY <1>0, <1>s, <2>1, <2>2 DEF Shrinks, Unfinished, Exists
  <1> QED  BY <1>1, <1>2, <1>3, <1>4, <1>5, <1>6, <1>7, <1>8 DEF Next

\* The unfinished operations are no more than the requests at once, and one for each
\* review that a webhook with the policy Ignore has missed.
THEOREM AdmissionBounded == Spec => []AdmissionBound
  <1>1. Init => AdmissionInv
    <2> SUFFICES ASSUME Init PROVE AdmissionInv
      OBVIOUS
    <2>1. NoOperation.uid = 0 /\ NoRequest.state = "none"
      BY DEF NoOperation, NoRequest
    <2>2. Active = {} /\ Coming = {} /\ faults = 0
      BY <2>1 DEF Init, Active, Coming, Unfinished, Exists
    <2> QED  BY <2>2, InitTyped, FS_EmptySet, BoundsAssumption DEF AdmissionInv
  <1>2. AdmissionInv /\ [Next]_vars => AdmissionInv'
    BY AdmissionStep
  <1>3. AdmissionInv => AdmissionBound
    <2> SUFFICES ASSUME AdmissionInv PROVE AdmissionBound
      OBVIOUS
    <2> DEFINE U == {n \in Names : Unfinished(n)}
    <2>1. U \subseteq Coming
      BY DEF Coming
    <2>2. Cardinality(U) <= Cardinality(Coming) /\ Cardinality(U) \in Nat
      BY <2>1, NamesFinite, FS_Subset, FS_CardinalityType
    <2>3. /\ Missed(faults) \in Nat
          /\ Cardinality(Coming) <= MaxRequests + Missed(faults)
      BY DEF AdmissionInv, TypeOK, Missed
    <2>4. Cardinality(U) <= MaxRequests + Missed(faults)
      BY <2>2, <2>3, NamesFinite, BoundsAssumption
    <2> QED  BY <2>4 DEF AdmissionBound, Missed
  <1> QED  BY <1>1, <1>2, <1>3, PTL DEF Spec

\* Requests one after the other, and a webhook that is always asked, leave at most
\* one unfinished operation: whatever the controller, the users and faults do.
THEOREM OneUnfinished ==
    ASSUME FailurePolicy = "Fail", MaxRequests = 1
    PROVE  Spec => []AtMostOneUnfinished
  <1>1. AdmissionBound => AtMostOneUnfinished
    <2> SUFFICES ASSUME AdmissionBound, NEW m \in Names, NEW n \in Names,
                        Unfinished(m), Unfinished(n), m # n
                 PROVE  FALSE
      BY DEF AtMostOneUnfinished
    <2> DEFINE U == {k \in Names : Unfinished(k)}
    <2>1. IsFiniteSet(U) /\ {m, n} \subseteq U
      BY NamesAssumption, FS_Subset
    <2>2. Cardinality({m, n}) = 2
      <3>1. IsFiniteSet({m}) /\ Cardinality({m}) = 1
        BY FS_Singleton
      <3>2. n \notin {m} /\ {m, n} = {m} \cup {n}
        OBVIOUS
      <3>3. Cardinality({m} \cup {n}) = Cardinality({m}) + 1
        BY <3>1, <3>2, FS_AddElement
      <3> QED  BY <3>1, <3>2, <3>3
    <2>3. 2 <= Cardinality(U) /\ Cardinality(U) \in Nat
      BY <2>1, <2>2, FS_Subset, FS_CardinalityType
    <2>4. Cardinality(U) <= 1
      BY DEF AdmissionBound
    <2> QED  BY <2>3, <2>4
  <1> QED  BY <1>1, AdmissionBounded, PTL

-----------------------------------------------------------------------------
(* The conditions never go back. *)

\* What a step can do to an operation: remove it, leave its uid and a final status
\* as they are, or create it with the next uid.
OpsMove ==
    /\ lastUid' \in {lastUid, lastUid + 1}
    /\ \A n \in Names :
         \/ ops'[n].uid = 0
         \/ /\ ops'[n].uid = ops[n].uid
            /\ ops[n].status \in Final => ops'[n].status = ops[n].status
         \/ /\ lastUid' = lastUid + 1 /\ ops'[n].uid = lastUid'
            /\ \A m \in Names \ {n} : ops'[m] = ops[m]

\* What a step can do to a pass: nothing, anything that does not end at the update,
\* or to list the operations as they are.
PassMove ==
    \A q \in Replicas :
        \/ pass'[q] = pass[q]
        \/ /\ pass'[q].at # "update"
           /\ pass'[q].conditions \in {{}, pass[q].conditions}
           /\ pass'[q].cluster \in {NewCluster, pass[q].cluster, cache[q]}
        \/ /\ pass'[q].cluster = pass[q].cluster
           /\ pass'[q].conditions = NewConditions
           /\ UNCHANGED <<ops, lastUid, cluster>>

\* What a step can do to the Cluster: nothing, or store what a pass has listed.
ClusterMove ==
    \/ cluster' = cluster
    \/ \E p \in Replicas :
         /\ At(p, "update") /\ pass[p].cluster.rv = cluster.rv
         /\ cluster' = [rv |-> cluster.rv + 1, conditions |-> pass[p].conditions]

CacheMove == \A q \in Replicas : \/ cache'[q] = cache[q]
                                 \/ cache'[q] = cluster /\ cluster' = cluster

LEMMA OnePass ==
    ASSUME NEW p \in Replicas, \A q \in Replicas \ {p} : pass'[q] = pass[q],
           \/ /\ pass'[p].at # "update" /\ pass'[p].conditions \in {{}, pass[p].conditions}
              /\ pass'[p].cluster \in {NewCluster, pass[p].cluster, cache[p]}
           \/ /\ pass'[p].cluster = pass[p].cluster /\ pass'[p].conditions = NewConditions
              /\ UNCHANGED <<ops, lastUid, cluster>>
    PROVE  PassMove
  BY DEF PassMove

\* A pass that begins anew, perhaps with the operations it is to delete.
LEMMA FreshMoves ==
    ASSUME TypeOK, NEW p \in Replicas, NEW at, NEW excess, at # "update",
           pass' = [pass EXCEPT ![p] = [at |-> at, cluster |-> NewCluster,
                                        excess |-> excess, conditions |-> {}]]
    PROVE  PassMove
  <1>1. pass'[p] = [at |-> at, cluster |-> NewCluster, excess |-> excess, conditions |-> {}]
    BY DEF TypeOK
  <1>2. \A q \in Replicas \ {p} : pass'[q] = pass[q]
    BY DEF TypeOK
  <1>3. pass'[p].at # "update" /\ pass'[p].conditions = {} /\ pass'[p].cluster = NewCluster
    BY <1>1
  <1> QED  BY <1>2, <1>3, OnePass

LEMMA ReturnMoves == ASSUME TypeOK, NEW p \in Replicas, Return(p) PROVE PassMove
  BY FreshMoves DEF Return, Idle

LEMMA OwnMoves ==
    ASSUME TypeOK, NEW p \in Replicas, pass' = [pass EXCEPT ![p] = [Idle EXCEPT !.at = "own"]]
    PROVE  PassMove
  <1>1. [Idle EXCEPT !.at = "own"] =
          [at |-> "own", cluster |-> NewCluster, excess |-> {}, conditions |-> {}]
    BY DEF Idle
  <1> QED  BY <1>1, FreshMoves

LEMMA GotoMoves == ASSUME TypeOK, NEW p \in Replicas, NEW s, s # "update", Goto(p, s)
                   PROVE  PassMove
  <1>1. pass[p] \in Passes
    BY DEF TypeOK
  <1>2. pass'[p] = [pass[p] EXCEPT !.at = s] /\ \A q \in Replicas \ {p} : pass'[q] = pass[q]
    BY DEF Goto, TypeOK
  <1>3. /\ pass'[p].at = s /\ pass'[p].conditions = pass[p].conditions
        /\ pass'[p].cluster = pass[p].cluster
    BY <1>1, <1>2 DEF Passes
  <1> QED  BY <1>2, <1>3, OnePass

LEMMA DoneMoves ==
    ASSUME TypeOK, NEW p \in Replicas, At(p, "delete"), NEW n, DoneWith(p, n)
    PROVE  PassMove
  <1>1. CASE pass[p].excess = {n}
    BY <1>1, ReturnMoves DEF DoneWith
  <1>2. CASE pass[p].excess # {n}
    <2>1. pass[p] \in Passes
      BY DEF TypeOK
    <2>2. /\ pass'[p] = [pass[p] EXCEPT !.excess = @ \ {n}]
          /\ \A q \in Replicas \ {p} : pass'[q] = pass[q]
      BY <1>2 DEF DoneWith, TypeOK
    <2>3. /\ pass'[p].at = "delete" /\ pass'[p].conditions = pass[p].conditions
          /\ pass'[p].cluster = pass[p].cluster
      BY <2>1, <2>2 DEF Passes, At
    <2> QED  BY <2>2, <2>3, OnePass
  <1> QED  BY <1>1, <1>2

LEMMA SameOps == UNCHANGED <<ops, lastUid>> => OpsMove
  BY DEF OpsMove

\* A step that disturbs one operation only.
Others(n) == \A m \in Names \ {n} : ops'[m] = ops[m]

LEMMA NewName ==
    ASSUME NEW n \in Names, Others(n), lastUid' = lastUid + 1, ops'[n].uid = lastUid'
    PROVE  OpsMove
  BY DEF OpsMove, Others

LEMMA NoName ==
    ASSUME NEW n \in Names, Others(n), lastUid' = lastUid, ops'[n].uid = 0
    PROVE  OpsMove
  BY DEF OpsMove, Others

LEMMA SameName ==
    ASSUME NEW n \in Names, Others(n), lastUid' = lastUid, ops'[n].uid = ops[n].uid,
           ops[n].status \notin Final
    PROVE  OpsMove
  BY DEF OpsMove, Others

LEMMA StageMoves == ASSUME TypeOK, NEW p \in Replicas, Stage(p)
                    PROVE  OpsMove /\ PassMove /\ ClusterMove /\ CacheMove
  <1>0. cache' = cache /\ lastUid' = lastUid
    BY DEF Stage, Reconcile, ListExcess, DeleteExcess, ListConditions, UpdateStatus,
           UpdateOwnReferenceToCluster, users
  <1>1. CASE Reconcile(p)
    <2>1. /\ pass[p] \in Passes
          /\ pass'[p] = [pass[p] EXCEPT !.at = "clean", !.cluster = cache[p]]
          /\ \A q \in Replicas \ {p} : pass'[q] = pass[q]
      BY <1>1 DEF Reconcile, TypeOK
    <2>2. /\ pass'[p].at = "clean" /\ pass'[p].conditions = pass[p].conditions
          /\ pass'[p].cluster = cache[p]
      BY <2>1 DEF Passes
    <2>3. PassMove
      BY <2>1, <2>2, OnePass
    <2> QED  BY <1>0, <1>1, <2>3, SameOps DEF Reconcile, ClusterMove, CacheMove
  <1>2. CASE ListExcess(p)
    <2>1. PICK limit \in {BackEndLimit(Limit), BackEndLimit(0)} :
            IF Cardinality(Labelled) <= limit THEN Goto(p, "status")
            ELSE IF Excess(limit) = {} THEN Return(p)
            ELSE pass' = [pass EXCEPT ![p] = [Idle EXCEPT !.at = "delete",
                                                          !.excess = Excess(limit)]]
      BY <1>2, Zenon DEF ListExcess
    <2>2. ASSUME Goto(p, "status") PROVE PassMove
      <3>1. "status" # "update"
        OBVIOUS
      <3> QED  BY <2>2, <3>1, GotoMoves
    <2>3. ASSUME pass' = [pass EXCEPT ![p] = [Idle EXCEPT !.at = "delete",
                                                          !.excess = Excess(limit)]]
          PROVE  PassMove
      <3>1. /\ pass'[p] = [Idle EXCEPT !.at = "delete", !.excess = Excess(limit)]
            /\ \A q \in Replicas \ {p} : pass'[q] = pass[q]
        BY <2>3 DEF TypeOK
      <3>2. Idle.cluster = NewCluster /\ Idle.conditions = {} /\ Idle \in Passes
        BY NoneTyped DEF Idle
      <3>3. /\ pass'[p].at = "delete" /\ pass'[p].cluster = NewCluster
            /\ pass'[p].conditions = {}
        BY <3>1, <3>2 DEF Passes
      <3> QED  BY <3>1, <3>3, OnePass
    <2>4. PassMove
      BY <2>1, <2>2, <2>3, ReturnMoves
    <2>5. ops' = ops /\ cluster' = cluster
      BY <1>2 DEF ListExcess
    <2> QED  BY <1>0, <2>4, <2>5, SameOps DEF ClusterMove, CacheMove
  <1>3. CASE DeleteExcess(p)
    <2>1. PICK n \in pass[p].excess : /\ ops' = [ops EXCEPT ![n] = NoOperation]
                                      /\ DoneWith(p, n)
      BY <1>3 DEF DeleteExcess
    <2>2. NoOperation.uid = 0
      BY DEF NoOperation
    <2>3. OpsMove
      BY <1>0, <2>1, <2>2 DEF OpsMove, TypeOK
    <2>4. PassMove
      BY <1>3, <2>1, DoneMoves DEF DeleteExcess
    <2> QED  BY <1>0, <1>3, <2>3, <2>4 DEF DeleteExcess, ClusterMove, CacheMove
  <1>4. CASE ListConditions(p)
    <2>1. UNCHANGED <<ops, lastUid, cluster>>
      BY <1>4 DEF ListConditions, users
    <2>2. ASSUME pass' = [pass EXCEPT ![p] = [Idle EXCEPT !.at = "own"]] PROVE PassMove
      BY <2>2, OwnMoves
    <2>3. ASSUME pass' = [pass EXCEPT ![p].at = "update", ![p].conditions = NewConditions]
          PROVE  PassMove
      <3>1. /\ pass[p] \in Passes
            /\ pass'[p] = [pass[p] EXCEPT !.at = "update", !.conditions = NewConditions]
            /\ \A q \in Replicas \ {p} : pass'[q] = pass[q]
        BY <2>3 DEF TypeOK
      <3>2. pass'[p].cluster = pass[p].cluster /\ pass'[p].conditions = NewConditions
        BY <3>1 DEF Passes
      <3> QED  BY <2>1, <3>1, <3>2, OnePass
    <2>4. PassMove
      BY <1>4, <2>2, <2>3 DEF ListConditions
    <2> QED  BY <1>0, <2>1, <2>4, SameOps DEF ClusterMove, CacheMove
  <1>5. CASE UpdateStatus(p)
    <2>1. ClusterMove
      BY <1>5 DEF UpdateStatus, ClusterMove
    <2>2. ASSUME pass' = [pass EXCEPT ![p] = [Idle EXCEPT !.at = "own"]] PROVE PassMove
      BY <2>2, OwnMoves
    <2>3. PassMove
      BY <1>5, <2>2, ReturnMoves DEF UpdateStatus
    <2>4. ops' = ops
      BY <1>5 DEF UpdateStatus
    <2>5. OpsMove
      BY <1>0, <2>4, SameOps
    <2>6. CacheMove
      BY <1>0 DEF CacheMove
    <2> QED  BY <2>1, <2>3, <2>5, <2>6
  <1>6. CASE UpdateOwnReferenceToCluster(p)
    <2>1. PassMove
      BY <1>6, ReturnMoves DEF UpdateOwnReferenceToCluster
    <2> QED  BY <1>0, <1>6, <2>1, SameOps DEF UpdateOwnReferenceToCluster, ClusterMove, CacheMove
  <1> QED  BY <1>1, <1>2, <1>3, <1>4, <1>5, <1>6 DEF Stage

LEMMA ReplicaMoves ==
    ASSUME TypeOK, NEW p \in Replicas, CacheSync(p) \/ FailedCall(p) \/ Crash(p)
    PROVE  OpsMove /\ PassMove /\ ClusterMove /\ CacheMove
  <1>0. UNCHANGED <<ops, lastUid, cluster>>
    BY DEF CacheSync, FailedCall, Crash, users
  <1>1. OpsMove /\ ClusterMove
    BY <1>0, SameOps DEF ClusterMove
  <1>2. CASE CacheSync(p)
    BY <1>0, <1>1, <1>2 DEF CacheSync, PassMove, CacheMove, TypeOK
  <1>3. CASE FailedCall(p)
    <2>1. PassMove
      BY <1>3, ReturnMoves, DoneMoves DEF FailedCall
    <2> QED  BY <1>1, <1>3, <2>1 DEF FailedCall, CacheMove
  <1>4. CASE Crash(p)
    <2>1. PassMove
      BY <1>4, ReturnMoves DEF Crash
    <2> QED  BY <1>0, <1>1, <1>4, <2>1 DEF Crash, CacheMove, TypeOK
  <1> QED  BY <1>2, <1>3, <1>4

LEMMA NameMoves ==
    ASSUME TypeOK, NEW n \in Names,
           \/ \E s \in Scores : Score(n, s) \/ \E l \in Labels : Submit(n, s, l)
           \/ Review(n) \/ NoReview(n) \/ Store(n) \/ RemoveOps(n) \/ Advance(n)
    PROVE  OpsMove /\ PassMove /\ ClusterMove /\ CacheMove
  <1>0. UNCHANGED <<cluster, cache, pass>>
    BY DEF Score, Submit, Review, NoReview, Answer, Store, RemoveOps, Advance, Label, Start,
           End, Become
  <1>1. PassMove /\ ClusterMove /\ CacheMove
    BY <1>0 DEF PassMove, ClusterMove, CacheMove
  <1>2. ASSUME NEW s \in Scores, Score(n, s) PROVE OpsMove
    BY <1>2 DEF Score, OpsMove, TypeOK, Operations
  <1>3. UNCHANGED <<ops, lastUid>> => OpsMove
    BY SameOps
  <1>4. ASSUME Store(n) PROVE OpsMove
    <2>1. ASSUME ops' = [ops EXCEPT ![n] =
                         [NoOperation EXCEPT !.uid = lastUid + 1,
                             !.score = requests[n].score,
                             !.labelled = requests[n].labelled]],
                 lastUid' = lastUid + 1
          PROVE  OpsMove
      <3>1. ops'[n].uid = lastUid' /\ \A m \in Names \ {n} : ops'[m] = ops[m]
        BY <2>1 DEF TypeOK, NoOperation
      <3> QED  BY <2>1, <3>1, NewName DEF Others
    <2> QED  BY <1>3, <1>4, <2>1 DEF Store
  <1>5. ASSUME RemoveOps(n) PROVE OpsMove
    <2>1. NoOperation.uid = 0
      BY DEF NoOperation
    <2>2. ops'[n].uid = 0 /\ lastUid' = lastUid /\ \A m \in Names \ {n} : ops'[m] = ops[m]
      BY <1>5, <2>1 DEF RemoveOps, TypeOK
    <2> QED  BY <2>2, NoName DEF Others
  <1>6. ASSUME Advance(n) PROVE OpsMove
    <2>1. Unfinished(n) /\ lastUid' = lastUid
      BY <1>6 DEF Advance, Label, Start, End, Unfinished, Final, Become, users
    <2>2. ops'[n].uid = ops[n].uid /\ \A m \in Names \ {n} : ops'[m] = ops[m]
      BY <1>6 DEF Advance, Label, Start, End, Become, TypeOK, Operations
    <2>3. ops[n].status \notin Final
      BY <2>1 DEF Unfinished
    <2> QED  BY <2>1, <2>2, <2>3, SameName DEF Others
  <1>7. ASSUME Review(n) \/ NoReview(n) PROVE OpsMove
    <2>1. ops' = ops /\ lastUid' = lastUid
      BY <1>7 DEF Review, NoReview, Answer
    <2> QED  BY <1>3, <2>1
  <1>8. ASSUME NEW s \in Scores, NEW l \in Labels, Submit(n, s, l) PROVE OpsMove
    BY <1>3, <1>8 DEF Submit
  <1> QED  BY <1>1, <1>2, <1>4, <1>5, <1>6, <1>7, <1>8

LEMMA NextMoves == ASSUME TypeOK, [Next]_vars
                   PROVE  OpsMove /\ PassMove /\ ClusterMove /\ CacheMove
  <1>1. CASE UNCHANGED vars
    BY <1>1 DEF vars, OpsMove, PassMove, ClusterMove, CacheMove
  <1> QED  BY <1>1, StageMoves, ReplicaMoves, NameMoves DEF Next

\* What is true of the operations stays true.
LEMMA TruthStays ==
    ASSUME TypeOK, OpsMove, NEW C \in SUBSET ClusterConditions, Truthful(C, ops, lastUid)
    PROVE  Truthful(C, ops', lastUid')
  <1> SUFFICES ASSUME NEW c \in C, c.start # 0
               PROVE  /\ c.start <= lastUid'
                      /\ \A n \in Names : ops'[n].uid = c.start =>
                           c.op = n /\ (c.status \in Final => ops'[n].status = c.status)
    BY DEF Truthful
  <1>1. c.start \in Nat /\ lastUid \in Nat
    BY DEF ClusterConditions, TypeOK
  <1>2. c.start <= lastUid
    BY DEF Truthful
  <1>3. c.start <= lastUid' /\ c.start # lastUid + 1
    BY <1>1, <1>2 DEF OpsMove
  <1>4. ASSUME NEW n \in Names, ops'[n].uid = c.start
        PROVE  c.op = n /\ (c.status \in Final => ops'[n].status = c.status)
    <2>1. /\ ops'[n].uid = ops[n].uid
          /\ ops[n].status \in Final => ops'[n].status = ops[n].status
      BY <1>3, <1>4 DEF OpsMove
    <2> QED  BY <1>4, <2>1 DEF Truthful
  <1> QED  BY <1>3, <1>4

LEMMA UidsStay == ASSUME TypeOK, TypeOK', UidsOK, OpsMove PROVE UidsOK'
  <1> SUFFICES ASSUME NEW n \in Names, NEW m \in Names
               PROVE  /\ ops'[n].uid <= lastUid'
                      /\ ops'[n].uid # 0 /\ ops'[n].uid = ops'[m].uid => m = n
    BY DEF UidsOK, Exists
  <1>1. \A k \in Names : ops[k].uid \in Nat /\ ops'[k].uid \in Nat
    BY DEF TypeOK, Operations
  <1>2. lastUid \in Nat /\ lastUid' \in {lastUid, lastUid + 1}
    BY DEF TypeOK, OpsMove
  <1>3. \A k \in Names : ops[k].uid <= lastUid
    BY DEF UidsOK
  <1>4. ops'[n].uid <= lastUid'
    BY <1>1, <1>2, <1>3 DEF OpsMove
  <1>5. ASSUME ops'[n].uid # 0, ops'[n].uid = ops'[m].uid, m # n PROVE FALSE
    <2>1. \A k \in {n, m} : \/ ops'[k].uid = ops[k].uid
                            \/ /\ ops'[k].uid = lastUid + 1
                               /\ \A j \in Names \ {k} : ops'[j] = ops[j]
      BY <1>5 DEF OpsMove
    <2>2. ops'[n].uid # lastUid + 1
      BY <1>1, <1>2, <1>3, <1>5, <2>1
    <2>3. ops[n].uid = ops[m].uid /\ ops[n].uid # 0
      BY <1>5, <2>1, <2>2
    <2> QED  BY <1>5, <2>3 DEF UidsOK, Exists
  <1> QED  BY <1>4, <1>5

\* A new listing is true, and newer than everything that is.
LEMMA ListingIsNew ==
    ASSUME TypeOK, UidsOK
    PROVE  /\ Truthful(NewConditions, ops, lastUid)
           /\ \A C \in SUBSET ClusterConditions :
                Truthful(C, ops, lastUid) => Newer(C, NewConditions)
  <1>1. \A d \in NewConditions : \E n \in Labelled : d = Condition(n)
    BY DEF NewConditions
  <1>2. Labelled \subseteq Names
    BY DEF Labelled
  <1>3. \A n \in Labelled : Condition(n).start # 0 =>
          /\ Condition(n).op = n /\ Condition(n).start = ops[n].uid
          /\ Condition(n).status = ops[n].status
    BY DEF Condition
  <1>4. Truthful(NewConditions, ops, lastUid)
    BY <1>1, <1>2, <1>3 DEF Truthful, UidsOK, Exists
  <1>5. ASSUME NEW C \in SUBSET ClusterConditions, Truthful(C, ops, lastUid),
               NEW c \in C, NEW d \in NewConditions,
               c.start # 0, c.start = d.start, c.status \in Final
        PROVE  d = c
    <2>1. PICK n \in Labelled : d = Condition(n)
      BY <1>1
    <2>2. d.op = n /\ d.start = ops[n].uid /\ d.status = ops[n].status
      BY <1>3, <1>5, <2>1
    <2>3. c.op = n /\ c.status = ops[n].status
      BY <1>2, <1>5, <2>2 DEF Truthful
    <2>4. c = [op |-> c.op, start |-> c.start, status |-> c.status]
      BY DEF ClusterConditions
    <2>5. d = [op |-> d.op, start |-> d.start, status |-> d.status]
      BY <2>1 DEF Condition
    <2> QED  BY <1>5, <2>2, <2>3, <2>4, <2>5
  <1> QED  BY <1>4, <1>5 DEF Newer

LEMMA ConditionsStep ==
    ASSUME ConditionsInv, [Next]_vars
    PROVE  ConditionsInv' /\ Newer(cluster.conditions, cluster'.conditions)
  <1> USE DEF ConditionsInv
  <1>0. TypeOK /\ TypeOK'
    BY StepTyped
  <1>1. OpsMove /\ PassMove /\ ClusterMove /\ CacheMove
    BY NextMoves
  <1>2. UidsOK'
    BY <1>0, <1>1, UidsStay
  <1>3. /\ cluster.conditions \in SUBSET ClusterConditions
        /\ \A q \in Replicas : pass[q].conditions \in SUBSET ClusterConditions
        /\ cluster.rv \in Nat /\ cluster'.rv \in Nat
        /\ \A q \in Replicas : pass[q].cluster.rv \in Nat /\ cache[q].rv \in Nat
    BY <1>0 DEF TypeOK, Clusters, Passes
  <1>4. \A C \in SUBSET ClusterConditions :
          Truthful(C, ops, lastUid) => Truthful(C, ops', lastUid')
    BY <1>0, <1>1, TruthStays
  <1>5. Truthful(cluster'.conditions, ops', lastUid')
    BY <1>1, <1>3, <1>4 DEF ClusterMove
  <1>10. Newer(cluster'.conditions, cluster'.conditions)
    BY <1>1 DEF ClusterMove
  <1>6. 1 <= cluster'.rv /\ cluster.rv <= cluster'.rv
    BY <1>1, <1>3 DEF ClusterMove
  <1>7. ASSUME NEW q \in Replicas
        PROVE  /\ Truthful(pass'[q].conditions, ops', lastUid')
               /\ Newer(pass'[q].conditions, pass'[q].conditions)
               /\ cache'[q].rv <= cluster'.rv /\ pass'[q].cluster.rv <= cluster'.rv
               /\ pass'[q].at = "update" /\ pass'[q].cluster.rv = cluster'.rv =>
                    Newer(cluster'.conditions, pass'[q].conditions)
    <2>1. cache'[q].rv <= cluster'.rv
      BY <1>1, <1>3, <1>6 DEF CacheMove
    <2>2. NewCluster.rv = 1
      BY DEF NewCluster
    <2>3. pass'[q].cluster.rv <= cluster'.rv
      BY <1>1, <1>3, <1>6, <2>2 DEF PassMove
    <2>4. CASE pass'[q] = pass[q]
      <3>1. CASE cluster' = cluster
        BY <1>3, <1>4, <2>1, <2>3, <2>4, <3>1 DEF At
      <3>2. CASE cluster' # cluster
        <4>1. cluster'.rv = cluster.rv + 1
          BY <1>1, <3>2 DEF ClusterMove
        <4>2. pass'[q].cluster.rv # cluster'.rv
          BY <1>3, <2>4, <4>1
        <4> QED  BY <1>3, <1>4, <2>1, <2>3, <2>4, <4>2
      <3> QED  BY <3>1, <3>2
    <2>5. CASE /\ pass'[q].at # "update"
               /\ pass'[q].conditions \in {{}, pass[q].conditions}
      <3>1. Truthful({}, ops', lastUid') /\ Newer({}, {})
        BY DEF Truthful, Newer
      <3> QED  BY <1>3, <1>4, <2>1, <2>3, <2>5, <3>1
    <2>6. CASE /\ pass'[q].conditions = NewConditions
               /\ UNCHANGED <<ops, lastUid, cluster>>
      <3>1. NewConditions \in SUBSET ClusterConditions
        BY <1>0, ConditionsTyped
      <3> QED  BY <1>0, <1>3, <2>1, <2>3, <2>6, <3>1, ListingIsNew
    <2> QED  BY <1>1, <2>4, <2>5, <2>6 DEF PassMove
  <1>8. ConditionsInv'
    BY <1>0, <1>2, <1>5, <1>6, <1>7, <1>10 DEF At
  <1>9. Newer(cluster.conditions, cluster'.conditions)
    <2>1. CASE cluster' = cluster
      BY <2>1
    <2>2. CASE cluster' # cluster
      BY <1>1, <2>2 DEF ClusterMove
    <2> QED  BY <2>1, <2>2
  <1> QED  BY <1>8, <1>9

LEMMA ConditionsStart == Init => ConditionsInv
  <1> SUFFICES ASSUME Init PROVE ConditionsInv
    OBVIOUS
  <1>1. NoOperation.uid = 0 /\ NewCluster.rv = 1 /\ NewCluster.conditions = {}
    BY DEF NoOperation, NewCluster
  <1>2. Idle.at = "idle" /\ Idle.conditions = {} /\ Idle.cluster = NewCluster
    BY DEF Idle
  <1>3. UidsOK
    BY <1>1 DEF Init, UidsOK, Exists
  <1>4. Truthful({}, ops, lastUid) /\ Newer({}, {})
    BY DEF Truthful, Newer
  <1>5. cluster.rv = 1 /\ cluster.conditions = {}
    BY <1>1 DEF Init
  <1>6. \A p \in Replicas : /\ cache[p].rv = 1 /\ pass[p].cluster.rv = 1
                            /\ pass[p].at = "idle" /\ pass[p].conditions = {}
    BY <1>1, <1>2 DEF Init
  <1>7. TypeOK /\ 1 <= cluster.rv
    BY <1>5, InitTyped
  <1>8. /\ Truthful(cluster.conditions, ops, lastUid)
        /\ Newer(cluster.conditions, cluster.conditions)
    BY <1>4, <1>5
  <1>9. ASSUME NEW p \in Replicas
        PROVE  /\ Truthful(pass[p].conditions, ops, lastUid)
               /\ Newer(pass[p].conditions, pass[p].conditions)
               /\ cache[p].rv <= cluster.rv /\ pass[p].cluster.rv <= cluster.rv
               /\ ~At(p, "update")
    <2>1. cache[p].rv <= cluster.rv /\ pass[p].cluster.rv <= cluster.rv
      BY <1>5, <1>6
    <2>2. ~At(p, "update") /\ pass[p].conditions = {}
      BY <1>6 DEF At
    <2> QED  BY <1>4, <2>1, <2>2
  <1> QED  BY <1>3, <1>7, <1>8, <1>9 DEF ConditionsInv

\* For any replicas with caches and passes as late as they like, a Cluster that has
\* reported how a started operation ended never reports it differently.
THEOREM NeverRegress == Spec => ConditionsNeverRegress
  <1>1. Init => ConditionsInv
    BY ConditionsStart
  <1>2. ConditionsInv /\ [Next]_vars => ConditionsInv'
    BY ConditionsStep
  <1>3. ConditionsInv /\ [Next]_vars =>
          [\A c \in cluster.conditions, d \in cluster'.conditions :
             c.start # 0 /\ c.start = d.start /\ c.status \in Final => d = c]_vars
    BY ConditionsStep DEF Newer
  <1> QED  BY <1>1, <1>2, <1>3, PTL DEF Spec, ConditionsNeverRegress

-----------------------------------------------------------------------------
(* The lifecycle of every operation. *)

LEMMA NoOperationIs == /\ NoOperation.uid = 0 /\ NoOperation.status = ""
                       /\ NoOperation.labelled = FALSE /\ NoOperation.started = FALSE
  BY DEF NoOperation

\* The operation n is created, removed, scored, or taken on by its controller.
Turns(n) ==
    \/ /\ ~Exists(n) /\ lastUid' = lastUid + 1 /\ ops'[n].uid = lastUid'
       /\ ops'[n].status = "" /\ ops'[n].started = FALSE
    \/ lastUid' = lastUid /\ ops'[n] = NoOperation
    \/ /\ lastUid' = lastUid /\ Exists(n) /\ ops'[n].uid = ops[n].uid
       /\ ops'[n].labelled = ops[n].labelled /\ ops'[n].started = ops[n].started
       /\ ops'[n].status = ops[n].status
    \/ lastUid' = lastUid /\ Advance(n)

OpsStep == \/ UNCHANGED <<ops, lastUid>>
           \/ \E n \in Names : Turns(n) /\ \A m \in Names \ {n} : ops'[m] = ops[m]

LEMMA NextOpsStep == ASSUME TypeOK, [Next]_vars PROVE OpsStep
  <1> USE DEF TypeOK
  <1>1. CASE UNCHANGED vars
    BY <1>1 DEF vars, OpsStep
  <1>2. ASSUME NEW p \in Replicas, DeleteExcess(p) PROVE OpsStep
    <2>1. PICK n \in pass[p].excess : ops' = [ops EXCEPT ![n] = NoOperation]
      BY <1>2 DEF DeleteExcess
    <2>2. n \in Names /\ lastUid' = lastUid
      BY <1>2 DEF DeleteExcess, users, Passes
    <2> QED  BY <2>1, <2>2 DEF OpsStep, Turns
  <1>3. ASSUME NEW p \in Replicas, ~DeleteExcess(p),
               Stage(p) \/ CacheSync(p) \/ FailedCall(p) \/ Crash(p)
        PROVE  OpsStep
    BY <1>3 DEF Stage, Reconcile, ListExcess, ListConditions, UpdateStatus,
                UpdateOwnReferenceToCluster, CacheSync, FailedCall, Crash, users, OpsStep
  <1>4. ASSUME NEW n \in Names, NEW s \in Scores, Score(n, s) PROVE OpsStep
    <2>1. ops[n] \in Operations /\ Exists(n) /\ lastUid' = lastUid
      BY <1>4 DEF Score
    <2>2. ops'[n] = [ops[n] EXCEPT !.score = s] /\ \A m \in Names \ {n} : ops'[m] = ops[m]
      BY <1>4 DEF Score
    <2> QED  BY <2>1, <2>2 DEF OpsStep, Turns, Operations
  <1>5. ASSUME NEW n \in Names,
               \/ \E s \in Scores, l \in Labels : Submit(n, s, l)
               \/ Review(n) \/ NoReview(n)
        PROVE  OpsStep
    BY <1>5 DEF Submit, Review, NoReview, Answer, OpsStep
  <1>6. ASSUME NEW n \in Names, Store(n) PROVE OpsStep
    <2>1. CASE UNCHANGED <<ops, lastUid>>
      BY <2>1 DEF OpsStep
    <2>2. CASE ~UNCHANGED <<ops, lastUid>>
      <3>1. /\ ~Exists(n) /\ lastUid' = lastUid + 1
            /\ ops' = [ops EXCEPT ![n] =
                         [NoOperation EXCEPT !.uid = lastUid + 1,
                             !.score = requests[n].score,
                             !.labelled = requests[n].labelled]]
        BY <1>6, <2>2 DEF Store
      <3>2. /\ ops'[n] = [NoOperation EXCEPT !.uid = lastUid + 1,
                             !.score = requests[n].score,
                             !.labelled = requests[n].labelled]
            /\ \A m \in Names \ {n} : ops'[m] = ops[m]
        BY <3>1
      <3>3. ops'[n].uid = lastUid' /\ ops'[n].status = "" /\ ops'[n].started = FALSE
        BY <3>1, <3>2, NoneTyped, NoOperationIs DEF Operations
      <3> QED  BY <3>1, <3>2, <3>3 DEF OpsStep, Turns
    <2> QED  BY <2>1, <2>2
  <1>7. ASSUME NEW n \in Names, RemoveOps(n) PROVE OpsStep
    BY <1>7 DEF RemoveOps, OpsStep, Turns
  <1>8. ASSUME NEW n \in Names, Advance(n) PROVE OpsStep
    <2>1. lastUid' = lastUid /\ \A m \in Names \ {n} : ops'[m] = ops[m]
      BY <1>8 DEF Advance, Label, Start, End, Become, users
    <2> QED  BY <1>8, <2>1 DEF OpsStep, Turns
  <1> QED  BY <1>1, <1>2, <1>3, <1>4, <1>5, <1>6, <1>7, <1>8 DEF Next

\* A step of the operation n keeps the invariant and follows the lifecycle.
LEMMA TurnsFollow ==
    ASSUME TypeOK, TypeOK', StartedInv, NEW n \in Names, Turns(n)
    PROVE  /\ ops'[n].status = "Running" => ops'[n].labelled /\ ops'[n].started
           /\ ops'[n].started => ops'[n].status # ""
           /\ ops'[n].uid = 0 => ops'[n] = NoOperation
           /\ Lifecycle(n)!LNext \/ UNCHANGED Lifecycle(n)!lvars
  <1>0. /\ ops[n] \in Operations /\ ops'[n] \in Operations /\ lastUid \in Nat
        /\ ops[n].status = "Running" => ops[n].labelled /\ ops[n].started
        /\ ops[n].started => ops[n].status # ""
        /\ ~Exists(n) => ops[n] = NoOperation
    BY DEF TypeOK, StartedInv
  <1> DEFINE o == ops[n]
             m == ops'[n]
             frozen(k) == IF k.labelled THEN {"label"} ELSE {}
             phase(k) == IF k.uid = 0 THEN "Absent"
                         ELSE IF k.status = "" THEN "Pending" ELSE k.status
  <1>p. Phase(n) = phase(o) /\ Phase(n)' = phase(m)
    BY DEF Phase, Exists
  <1>1. CASE /\ ~Exists(n) /\ lastUid' = lastUid + 1 /\ m.uid = lastUid'
             /\ m.status = "" /\ m.started = FALSE
    <2>1. m.uid # 0 /\ o.uid = 0
      <3>1. lastUid + 1 # 0
        BY DEF TypeOK
      <3> QED  BY <1>1, <3>1, Zenon DEF Exists
    <2>2. phase(o) = "Absent" /\ phase(m) = "Pending"
      BY <1>1, <2>1
    <2>3. frozen(m) \in SUBSET {"label"}
      OBVIOUS
    <2> QED  BY <1>0, <1>1, <1>p, <2>1, <2>2, <2>3 DEF Lifecycle!LNext, Lifecycle!Accept
  <1>2. CASE lastUid' = lastUid /\ m = NoOperation
    <2>1. m.uid = 0 /\ phase(m) = "Absent" /\ frozen(m) = {}
      BY <1>2, NoOperationIs
    <2>2. CASE Exists(n)
      <3>1. phase(o) # "Absent"
        BY <1>0, <2>2 DEF Exists, Operations, Statuses, Final
      <3> QED  BY <1>2, <1>p, <2>1, <3>1, NoOperationIs DEF Lifecycle!LNext, Lifecycle!Remove
    <2>3. CASE ~Exists(n)
      BY <1>0, <1>2, <1>p, <2>3, NoOperationIs DEF Lifecycle!lvars
    <2> QED  BY <2>2, <2>3
  <1>3. CASE /\ lastUid' = lastUid /\ Exists(n) /\ m.uid = o.uid
             /\ m.labelled = o.labelled /\ m.started = o.started
             /\ m.status = o.status
    BY <1>0, <1>3, <1>p DEF Exists, Lifecycle!lvars
  <1>4. CASE lastUid' = lastUid /\ Label(n)
    <2>1. m = [o EXCEPT !.labelled = TRUE] /\ Unfinished(n) /\ ~o.labelled
      BY <1>4 DEF Label, Become, TypeOK
    <2>2. /\ m.uid = o.uid /\ m.labelled = TRUE /\ m.started = o.started
          /\ m.status = o.status /\ o.status = "" /\ o.uid # 0
      BY <1>0, <2>1 DEF Operations, Unfinished, Exists, Statuses
    <2>3. phase(o) = "Pending" /\ phase(m) = "Pending" /\ frozen(m) = {"label"}
      BY <2>2
    <2> QED  BY <1>0, <1>4, <1>p, <2>2, <2>3 DEF Lifecycle!LNext, Lifecycle!Freeze
  <1>5. CASE lastUid' = lastUid /\ Start(n)
    <2>1. /\ m = [o EXCEPT !.status = "Running", !.started = TRUE]
          /\ Exists(n) /\ o.status = "" /\ o.labelled
      BY <1>5 DEF Start, Become, TypeOK
    <2>2. /\ m.uid = o.uid /\ m.labelled = o.labelled /\ m.started = TRUE
          /\ m.status = "Running" /\ o.uid # 0
      BY <1>0, <2>1 DEF Operations, Exists
    <2>3. /\ phase(o) = "Pending" /\ phase(m) = "Running"
          /\ frozen(o) = {"label"} /\ frozen(m) = frozen(o)
      BY <2>1, <2>2
    <2> QED  BY <1>0, <1>5, <1>p, <2>1, <2>2, <2>3 DEF Lifecycle!LNext, Lifecycle!Start
  <1>6. ASSUME lastUid' = lastUid, NEW r \in Final, End(n, r)
        PROVE  /\ m.status = "Running" => m.labelled /\ m.started
               /\ m.started => m.status # ""
               /\ m.uid = 0 => m = NoOperation
               /\ Lifecycle(n)!LNext
    <2>1. /\ m = [o EXCEPT !.status = r] /\ Unfinished(n)
          /\ r = "Succeeded" => o.started
      BY <1>6 DEF End, Become, TypeOK
    <2>2. /\ m.uid = o.uid /\ m.labelled = o.labelled /\ m.started = o.started
          /\ m.status = r /\ o.uid # 0 /\ o.status \in {"", "Running"}
      BY <1>0, <2>1 DEF Operations, Unfinished, Exists, Statuses
    <2>3. /\ phase(m) = r /\ frozen(m) = frozen(o) /\ r \in {"Succeeded", "Failed"}
          /\ phase(o) = "Running" \/ (phase(o) = "Pending" /\ r = "Failed")
      BY <1>0, <2>1, <2>2 DEF Final
    <2>4. Lifecycle(n)!End(r)
      BY <1>6, <1>p, <2>2, <2>3 DEF Lifecycle!End
    <2> QED  BY <2>2, <2>3, <2>4 DEF Lifecycle!LNext
  <1> QED  BY <1>1, <1>2, <1>3, <1>4, <1>5, <1>6 DEF Turns, Advance

LEMMA LifecycleStep ==
    ASSUME TypeOK, StartedInv, [Next]_vars
    PROVE  /\ StartedInv'
           /\ \A n \in Names : Lifecycle(n)!LNext \/ UNCHANGED Lifecycle(n)!lvars
  <1>0. TypeOK' /\ OpsStep /\ lastUid \in Nat
    BY StepTyped, NextOpsStep DEF TypeOK
  <1> SUFFICES ASSUME NEW n \in Names
               PROVE  /\ ops'[n].status = "Running" => ops'[n].labelled /\ ops'[n].started
                      /\ ops'[n].started => ops'[n].status # ""
                      /\ ops'[n].uid = 0 => ops'[n] = NoOperation
                      /\ Lifecycle(n)!LNext \/ UNCHANGED Lifecycle(n)!lvars
    BY DEF StartedInv, Exists
  <1>1. CASE Turns(n)
    BY <1>0, <1>1, TurnsFollow
  <1>2. CASE ops'[n] = ops[n] /\ lastUid' \in {lastUid, lastUid + 1}
    <2>1. Phase(n)' = Phase(n)
      BY <1>2 DEF Phase, Exists
    <2>2. CASE lastUid' = lastUid
      BY <1>2, <2>1, <2>2 DEF Lifecycle!lvars, StartedInv, Exists
    <2>3. CASE lastUid' = lastUid + 1
      BY <1>2, <2>1, <2>3 DEF Lifecycle!LNext, Lifecycle!Elsewhere, StartedInv, Exists
    <2> QED  BY <1>2, <2>2, <2>3
  <1>3. Turns(n) \/ (ops'[n] = ops[n] /\ lastUid' \in {lastUid, lastUid + 1})
    BY <1>0 DEF OpsStep, Turns
  <1> QED  BY <1>1, <1>2, <1>3

LEMMA LifecycleStart == Init => StartedInv /\ \A n \in Names : Lifecycle(n)!LInit
  <1> SUFFICES ASSUME Init, NEW n \in Names
               PROVE  /\ ops[n].status = "Running" => ops[n].labelled /\ ops[n].started
                      /\ ops[n].started => ops[n].status # ""
                      /\ ~Exists(n) => ops[n] = NoOperation
                      /\ Lifecycle(n)!LInit
    BY DEF StartedInv
  <1>1. ops[n] = NoOperation /\ lastUid = 0
    BY DEF Init
  <1>2. Phase(n) = "Absent"
    BY <1>1, NoOperationIs DEF Phase, Exists
  <1> QED  BY <1>1, <1>2, NoOperationIs DEF Lifecycle!LInit

\* Every name goes through the lifecycle, whatever the replicas, users and faults do.
THEOREM LifecycleFollowed == Spec => FollowsLifecycle
  <1>1. TypeOK /\ StartedInv /\ [Next]_vars =>
          /\ StartedInv'
          /\ [\A n \in Names : Lifecycle(n)!LNext \/ UNCHANGED Lifecycle(n)!lvars]_vars
    BY LifecycleStep
  <1> QED  BY <1>1, LifecycleStart, TypeCorrect, PTL DEF Spec, FollowsLifecycle

\* Nothing is left out: what the contract lets the clusterops controller do to an
\* operation n is a step of it here.  (It is started when it begins to run.)
THEOREM ContractIsAdvance ==
    ASSUME TypeOK, StartedInv, NEW n \in Names, NEW o \in Operations, Become(n, o),
           Exists(n), o.uid = ops[n].uid, o.score = ops[n].score,
           o.started = (ops[n].started \/ o.status = "Running"),
           Lifecycle(n)!LNext
    PROVE  Advance(n) \/ UNCHANGED vars
  <1>0. /\ ops[n] \in Operations /\ ops'[n] = o /\ lastUid' = lastUid /\ lastUid \in Nat
        /\ ops[n].status = "Running" => ops[n].labelled /\ ops[n].started
        /\ ops[n].started => ops[n].status # ""
    BY DEF TypeOK, StartedInv, Become, users
  <1>1. /\ Phase(n) = IF ops[n].status = "" THEN "Pending" ELSE ops[n].status
        /\ Phase(n)' = IF o.status = "" THEN "Pending" ELSE o.status
        /\ Phase(n) # "Absent" /\ Phase(n)' # "Absent"
    BY <1>0 DEF Phase, Exists, Operations, Statuses, Final
  <1>2. /\ ops[n].status \in Statuses /\ o.status \in Statuses
        /\ ops[n].labelled \in BOOLEAN /\ o.labelled \in BOOLEAN
        /\ ops[n].started \in BOOLEAN /\ o.started \in BOOLEAN
    BY <1>0 DEF Operations
  <1>3. ops[n] = o => UNCHANGED vars
    BY DEF Become, vars, users, TypeOK
  <1>4. ASSUME NEW k \in Operations, k.uid = o.uid, k.score = o.score, k.labelled = o.labelled,
               k.started = o.started, k.status = o.status
        PROVE  k = o
    BY <1>4 DEF Operations
  <1>5. CASE Lifecycle(n)!Freeze
    <2>1. ops[n].status = "" /\ o.status = "" /\ (ops[n].labelled => o.labelled)
      BY <1>0, <1>1, <1>2, <1>5 DEF Lifecycle!Freeze, Statuses, Final
    <2>2. o.started = ops[n].started
      <3>1. o.status # "Running"
        BY <2>1
      <3> QED  BY <1>2, <3>1, Zenon
    <2>3. CASE o.labelled = ops[n].labelled
      BY <1>0, <1>3, <1>4, <2>1, <2>2, <2>3
    <2>4. CASE o.labelled # ops[n].labelled
      <3>1. o.labelled = TRUE /\ ~ops[n].labelled
        BY <1>2, <2>1, <2>4
      <3>2. [ops[n] EXCEPT !.labelled = TRUE] = o
        BY <1>0, <1>4, <2>1, <2>2, <3>1 DEF Operations
      <3> QED  BY <2>1, <3>1, <3>2 DEF Advance, Label, Unfinished, Final
    <2> QED  BY <2>3, <2>4
  <1>6. CASE Lifecycle(n)!Start
    <2>1. /\ ops[n].status = "" /\ o.status = "Running" /\ ops[n].labelled /\ o.labelled
      BY <1>0, <1>1, <1>2, <1>6 DEF Lifecycle!Start, Statuses, Final
    <2>2. [ops[n] EXCEPT !.status = "Running", !.started = TRUE] = o
      BY <1>0, <1>2, <1>4, <2>1 DEF Operations
    <2> QED  BY <2>1, <2>2 DEF Advance, Start
  <1>7. ASSUME NEW r \in {"Succeeded", "Failed"}, Lifecycle(n)!End(r)
        PROVE  Advance(n)
    <2>1. /\ o.status = r /\ ops[n].status \in {"", "Running"}
          /\ r = "Succeeded" => ops[n].started
          /\ o.labelled = ops[n].labelled
      BY <1>0, <1>1, <1>2, <1>7 DEF Lifecycle!End, Statuses, Final
    <2>2. o.started = ops[n].started
      BY <1>2, <1>7, <2>1
    <2>3. [ops[n] EXCEPT !.status = r] = o
      BY <1>0, <1>4, <2>1, <2>2 DEF Operations
    <2>4. End(n, r) /\ r \in Final
      BY <2>1, <2>3 DEF End, Unfinished, Final
    <2> QED  BY <2>4 DEF Advance
  <1>8. ~Lifecycle(n)!Accept /\ ~Lifecycle(n)!Elsewhere /\ ~Lifecycle(n)!Remove
    <2>1. ops[n].uid' = o.uid /\ o.uid # 0
      BY <1>0 DEF Exists
    <2>2. lastUid' # lastUid + 1
      <3>1. lastUid # lastUid + 1
        BY DEF TypeOK
      <3> QED  BY <1>0, <3>1, Zenon
    <2> QED  BY <2>1, <2>2 DEF Lifecycle!Accept, Lifecycle!Elsewhere, Lifecycle!Remove
  <1> QED  BY <1>5, <1>6, <1>7, <1>8 DEF Lifecycle!LNext

=============================================================================
