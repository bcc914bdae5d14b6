--------------------------- MODULE CleanupProofs ---------------------------
(***************************************************************************)
(* With one replica the clean-up leaves the limit, for any number of       *)
(* operations, any scores, and whatever the users remove and create again  *)
(* between the listing and the deletions.                                  *)
(***************************************************************************)
EXTENDS FleetProofs

LEMMA LimitsTyped == /\ BackEndLimit(Limit) \in Nat /\ BackEndLimit(0) \in Nat
                     /\ LeastLimit \in Nat
                     /\ LeastLimit <= BackEndLimit(Limit) /\ LeastLimit <= BackEndLimit(0)
  BY LimitAssumption DEF BackEndLimit, LeastLimit, Smaller

LEMMA FiniteNames == \A S \in SUBSET Names : IsFiniteSet(S) /\ Cardinality(S) \in Nat
  BY NamesAssumption, FS_Subset, FS_CardinalityType

LEMMA LabelledExist == \A n \in Labelled : n \in Names /\ ops[n].uid # 0
  BY DEF Labelled, Exists

\* The clean-up's order is a strict total order of the labelled operations.
LEMMA TotalOrder ==
    ASSUME TypeOK, UidsOK
    PROVE  /\ \A n \in Labelled : ~Precedes(n, n)
           /\ \A m, n \in Labelled : m # n => Precedes(m, n) \/ Precedes(n, m)
           /\ \A l, m, n \in Labelled : Precedes(l, m) /\ Precedes(m, n) => Precedes(l, n)
  <1>1. \A n \in Labelled : ops[n].score \in Int /\ ops[n].uid \in Nat
    BY LabelledExist, ScoresAssumption DEF TypeOK, Operations
  <1>2. \A m, n \in Labelled : m # n => ops[m].uid # ops[n].uid
    BY LabelledExist DEF UidsOK, Exists
  <1> QED  BY <1>1, <1>2 DEF Precedes

\* What comes before m comes before what m precedes, and m itself comes before it.
LEMMA PlaceGrows ==
    ASSUME TypeOK, UidsOK, NEW m \in Labelled, NEW n \in Labelled, Precedes(m, n)
    PROVE  Place(m) < Place(n)
  <1> DEFINE Before(x) == {l \in Labelled : Precedes(l, x)}
  <1>1. Before(m) \in SUBSET Before(n) /\ m \in Before(n) \ Before(m)
    BY TotalOrder
  <1>2. Before(m) \in SUBSET Names /\ Before(n) \in SUBSET Names
    BY LabelledExist
  <1>3. /\ IsFiniteSet(Before(n))
        /\ Cardinality(Before(m)) \in Nat /\ Cardinality(Before(n)) \in Nat
    BY <1>2, FiniteNames
  <1>4. /\ Cardinality(Before(m)) <= Cardinality(Before(n))
        /\ Cardinality(Before(n)) = Cardinality(Before(m)) => Before(n) = Before(m)
    BY <1>1, <1>3, FS_Subset
  <1>5. Cardinality(Before(m)) < Cardinality(Before(n))
    BY <1>1, <1>3, <1>4
  <1> QED  BY <1>5 DEF Place

\* Places are taken from 0 without a gap, so that as many operations as the limit
\* are not in excess.
LEMMA PlacesFill ==
    ASSUME TypeOK, UidsOK, NEW limit \in Nat, Cardinality(Labelled) > limit
    PROVE  Cardinality({n \in Labelled : Place(n) < limit}) >= limit
  <1> DEFINE k == Cardinality(Labelled)
             f == [n \in Labelled |-> Place(n)]
             Kept == {n \in Labelled : Place(n) < limit}
             g == [n \in Kept |-> Place(n)]
  <1>1. Labelled \in SUBSET Names /\ Kept \in SUBSET Names
    BY LabelledExist
  <1>2. IsFiniteSet(Labelled) /\ k \in Nat /\ IsFiniteSet(Kept) /\ Cardinality(Kept) \in Nat
    BY <1>1, FiniteNames
  <1>3. ASSUME NEW n \in Labelled PROVE Place(n) \in 0..(k - 1)
    <2> DEFINE Before == {m \in Labelled : Precedes(m, n)}
    <2>1. Before \in SUBSET (Labelled \ {n})
      BY TotalOrder
    <2>2. IsFiniteSet(Labelled \ {n}) /\ Cardinality(Labelled \ {n}) = k - 1
      BY <1>2, FS_RemoveElement
    <2>3. Cardinality(Before) <= k - 1
      BY <2>1, <2>2, FS_Subset
    <2>4. Cardinality(Before) \in Nat
      BY <2>1, <2>2, FS_Subset, FS_CardinalityType
    <2>5. Cardinality(Before) \in 0..(k - 1)
      BY <1>2, <2>3, <2>4
    <2> QED  BY <2>5 DEF Place
  <1>4. \A m, n \in Labelled : m # n => Place(m) # Place(n)
    <2>1. \A n \in Labelled : Place(n) \in Int
      BY <1>2, <1>3
    <2>2. \A m, n \in Labelled : m # n => Precedes(m, n) \/ Precedes(n, m)
      BY TotalOrder
    <2> QED  BY <2>1, <2>2, PlaceGrows
  <1>5. f \in Injection(Labelled, 0..(k - 1))
    BY <1>3, <1>4 DEF Injection, IsInjective
  <1>6. IsFiniteSet(0..(k - 1)) /\ Cardinality(0..(k - 1)) = k
    <2>1. k - 1 \in Int /\ ~(0 > k - 1) => k - 1 - 0 + 1 = k
      BY <1>2
    <2>3. 0 > k - 1 => k = 0
      BY <1>2
    <2>4. k - 1 \in Int /\ 0 \in Int
      BY <1>2
    <2> QED  BY <2>1, <2>3, <2>4, FS_Interval
  <1>7. f \in Surjection(Labelled, 0..(k - 1))
    BY <1>5, <1>6, FS_Injection
  <1>8. ASSUME NEW i \in 0..(limit - 1) PROVE \E n \in Kept : g[n] = i
    <2>1. i \in 0..(k - 1) /\ i < limit
      BY <1>2
    <2>2. PICK n \in Labelled : f[n] = i
      BY <1>7, <2>1 DEF Surjection
    <2> QED  BY <2>1, <2>2
  <1>9. \A n \in Kept : g[n] \in 0..(limit - 1)
    BY <1>2, <1>3
  <1>10. g \in Surjection(Kept, 0..(limit - 1))
    BY <1>8, <1>9 DEF Surjection
  <1>11. Cardinality(0..(limit - 1)) = limit
    BY FS_Interval
  <1> QED  BY <1>2, <1>10, <1>11, FS_Surjection

\* If nothing is lost of what a pass keeps, the invariant stays.
LEMMA KeptStays ==
    ASSUME TypeOK, NEW r \in Replicas, CleanupInv(r), removed' = removed,
           pass'[r].at = "delete" =>
             /\ pass[r].at = "delete"
             /\ Labelled \ pass[r].excess \subseteq Labelled' \ pass'[r].excess
    PROVE  CleanupInv(r)'
  <1> SUFFICES ASSUME pass'[r].at = "delete"
               PROVE  Cardinality(Labelled' \ pass'[r].excess) + removed' >= LeastLimit
    BY DEF CleanupInv, At, LeastLimit, BackEndLimit
  <1>1. /\ Labelled \ pass[r].excess \in SUBSET (Labelled' \ pass'[r].excess)
        /\ Labelled' \ pass'[r].excess \in SUBSET Names
    BY DEF Labelled
  <1>2. /\ IsFiniteSet(Labelled' \ pass'[r].excess)
        /\ Cardinality(Labelled' \ pass'[r].excess) \in Nat
        /\ Cardinality(Labelled \ pass[r].excess) \in Nat
    BY <1>1, FiniteNames
  <1>3. Cardinality(Labelled \ pass[r].excess) <= Cardinality(Labelled' \ pass'[r].excess)
    BY <1>1, <1>2, FS_Subset
  <1>4. Cardinality(Labelled \ pass[r].excess) + removed >= LeastLimit
    BY DEF CleanupInv, At
  <1> QED  BY <1>2, <1>3, <1>4, LimitsTyped DEF TypeOK

\* The excess is found.
LEMMA ListedKeeps ==
    ASSUME TypeOK, UidsOK, NEW r \in Replicas, CleanupInv(r), ListExcess(r)
    PROVE  CleanupInv(r)'
  <1>1. PICK limit \in {BackEndLimit(Limit), BackEndLimit(0)} :
          IF Cardinality(Labelled) <= limit THEN Goto(r, "status")
          ELSE IF Excess(limit) = {} THEN Return(r)
          ELSE pass' = [pass EXCEPT ![r] = [Idle EXCEPT !.at = "delete",
                                                          !.excess = Excess(limit)]]
    BY Zenon DEF ListExcess
  <1>2. limit \in Nat /\ LeastLimit <= limit
    BY LimitsTyped
  <1>3. Labelled' = Labelled /\ removed' = removed
    BY DEF ListExcess, Labelled, Exists, users
  <1>4. CASE Cardinality(Labelled) <= limit \/ Excess(limit) = {}
    <2>1. pass'[r].at # "delete"
      BY <1>1, <1>4 DEF Goto, Return, Idle, TypeOK, Passes
    <2> QED  BY <1>3, <2>1, KeptStays
  <1>5. CASE ~(Cardinality(Labelled) <= limit) /\ Excess(limit) # {}
    <2> DEFINE Kept == {n \in Labelled : Place(n) < limit}
    <2>1. pass'[r].excess = Excess(limit)
      BY <1>1, <1>5 DEF TypeOK, Idle
    <2>2. Labelled \in SUBSET Names /\ Labelled' \ pass'[r].excess \in SUBSET Names
      BY <1>3, LabelledExist
    <2>3. Cardinality(Labelled) > limit
      BY <1>2, <1>5, <2>2, FiniteNames
    <2>4. Cardinality(Kept) >= limit
      BY <1>2, <2>3, PlacesFill
    <2>5. Kept \in SUBSET (Labelled' \ pass'[r].excess)
      <3>1. \A n \in Labelled : {m \in Labelled : Precedes(m, n)} \in SUBSET Names
        BY <2>2
      <3>2. \A n \in Labelled : Place(n) \in Nat
        BY <3>1, FiniteNames DEF Place
      <3>3. \A n \in Kept : n \notin Excess(limit)
        BY <1>2, <3>2 DEF Excess
      <3> QED  BY <1>3, <2>1, <3>3
    <2>6. /\ IsFiniteSet(Labelled' \ pass'[r].excess)
          /\ Cardinality(Labelled' \ pass'[r].excess) \in Nat
      BY <2>2, FiniteNames
    <2>7. Cardinality(Kept) <= Cardinality(Labelled' \ pass'[r].excess) /\ Cardinality(Kept) \in Nat
      BY <2>5, <2>6, FS_Subset, FS_CardinalityType
    <2>8. Cardinality(Labelled' \ pass'[r].excess) + removed' >= LeastLimit
      BY <1>2, <1>3, <2>4, <2>6, <2>7, LimitsTyped DEF TypeOK
    <2> QED  BY <2>8 DEF CleanupInv, LeastLimit, BackEndLimit
  <1> QED  BY <1>4, <1>5

\* An operation of the excess leaves it, deleted or not.
LEMMA DoneKeeps ==
    ASSUME TypeOK, NEW r \in Replicas, At(r, "delete"), CleanupInv(r), removed' = removed,
           NEW n \in pass[r].excess, DoneWith(r, n),
           Labelled \ {n} \subseteq Labelled'
    PROVE  CleanupInv(r)'
  <1>1. CASE pass[r].excess = {n}
    <2>1. pass'[r].at = "idle"
      BY <1>1 DEF DoneWith, Return, Idle, TypeOK
    <2> QED  BY <2>1, KeptStays
  <1>2. CASE pass[r].excess # {n}
    <2>1. pass'[r].at = "delete" /\ pass'[r].excess = pass[r].excess \ {n}
      BY <1>2 DEF DoneWith, At, TypeOK, Passes
    <2>2. Labelled \ pass[r].excess \subseteq Labelled' \ pass'[r].excess
      BY <2>1
    <2> QED  BY <2>1, <2>2, KeptStays DEF At
  <1> QED  BY <1>1, <1>2

LEMMA DeleteLabelled ==
    ASSUME TypeOK, NEW n \in Names, ops' = [ops EXCEPT ![n] = NoOperation]
    PROVE  Labelled' = Labelled \ {n}
  BY DEF TypeOK, Labelled, Exists, NoOperation

LEMMA StageCleans ==
    ASSUME TypeOK, UidsOK, NEW r \in Replicas, CleanupInv(r), Stage(r)
    PROVE  CleanupInv(r)'
  <1>1. CASE ListExcess(r)
    BY <1>1, ListedKeeps
  <1>2. CASE DeleteExcess(r)
    <2>1. PICK n \in pass[r].excess : /\ ops' = [ops EXCEPT ![n] = NoOperation]
                                      /\ DoneWith(r, n)
      BY <1>2 DEF DeleteExcess
    <2>2. n \in Names
      BY DEF TypeOK, Passes
    <2>3. Labelled \ {n} \subseteq Labelled' /\ removed' = removed
      BY <1>2, <2>1, <2>2, DeleteLabelled DEF DeleteExcess, users
    <2> QED  BY <1>2, <2>1, <2>3, DoneKeeps DEF DeleteExcess
  <1>3. CASE Reconcile(r) \/ ListConditions(r) \/ UpdateStatus(r)
             \/ UpdateOwnReferenceToCluster(r)
    <2>1. pass'[r].at # "delete"
      BY <1>3 DEF Reconcile, ListConditions, UpdateStatus, UpdateOwnReferenceToCluster,
                  Return, Idle, TypeOK, Passes
    <2>2. removed' = removed
      BY <1>3 DEF Reconcile, ListConditions, UpdateStatus, UpdateOwnReferenceToCluster, users
    <2> QED  BY <2>1, <2>2, KeptStays
  <1> QED  BY <1>1, <1>2, <1>3 DEF Stage

LEMMA ReplicaCleans ==
    ASSUME TypeOK, NEW r \in Replicas, CleanupInv(r), CacheSync(r) \/ FailedCall(r) \/ Crash(r)
    PROVE  CleanupInv(r)'
  <1>0. ops' = ops /\ removed' = removed
    BY DEF CacheSync, FailedCall, Crash, users
  <1>1. Labelled' = Labelled
    BY <1>0 DEF Labelled, Exists
  <1>2. ASSUME At(r, "delete"), NEW n \in pass[r].excess, DoneWith(r, n) PROVE CleanupInv(r)'
    BY <1>0, <1>1, <1>2, DoneKeeps
  <1>3. CASE UNCHANGED pass \/ Return(r)
    BY <1>0, <1>1, <1>3, KeptStays DEF Return, Idle, TypeOK
  <1> QED  BY <1>2, <1>3 DEF CacheSync, FailedCall, Crash

LEMMA NameCleans ==
    ASSUME TypeOK, TypeOK', NEW r \in Replicas, CleanupInv(r), NEW n \in Names,
           \/ \E s \in Scores : Score(n, s) \/ \E l \in Labels : Submit(n, s, l)
           \/ Review(n) \/ NoReview(n) \/ Store(n) \/ RemoveOps(n) \/ Advance(n)
    PROVE  CleanupInv(r)'
  <1>1. pass' = pass
    BY DEF Score, Submit, Review, NoReview, Answer, Store, RemoveOps, Advance,
           Label, Start, End, Become
  <1>2. CASE RemoveOps(n)
    <2> SUFFICES ASSUME pass[r].at = "delete"
                 PROVE  Cardinality(Labelled' \ pass[r].excess) + removed' >= LeastLimit
      BY <1>1 DEF CleanupInv, At, LeastLimit, BackEndLimit
    <2>1. Labelled' \ pass[r].excess = (Labelled \ pass[r].excess) \ {n} /\ removed' = removed + 1
      BY <1>2, DeleteLabelled DEF RemoveOps
    <2>2. Labelled \ pass[r].excess \in SUBSET Names
      BY LabelledExist
    <2>3. IsFiniteSet(Labelled \ pass[r].excess) /\ Cardinality(Labelled \ pass[r].excess) \in Nat
      BY <2>2, FiniteNames
    <2>4. Cardinality(Labelled' \ pass[r].excess) \in
            {Cardinality(Labelled \ pass[r].excess), Cardinality(Labelled \ pass[r].excess) - 1}
      BY <2>1, <2>3, FS_RemoveElement
    <2>5. Cardinality(Labelled \ pass[r].excess) + removed >= LeastLimit
      BY DEF CleanupInv, At
    <2> QED  BY <2>1, <2>3, <2>4, <2>5, LimitsTyped DEF TypeOK
  <1>3. CASE ~RemoveOps(n)
    <2>1. removed' = removed
      BY <1>3 DEF Score, Submit, Review, NoReview, Answer, Store, Advance,
                  Label, Start, End, Become, users
    <2>2. \A m \in Names \ {n} : ops'[m] = ops[m]
      BY <1>3 DEF Score, Submit, Review, NoReview, Answer, Store, Advance,
                  Label, Start, End, Become, TypeOK
    <2>3. n \in Labelled => n \in Labelled'
      BY <1>3 DEF Score, Submit, Review, NoReview, Answer, Store, Advance,
                  Label, Start, End, Become, TypeOK, Labelled, Exists, Operations
    <2>4. Labelled \subseteq Labelled'
      BY <2>2, <2>3 DEF Labelled, Exists
    <2> QED  BY <1>1, <2>1, <2>4, KeptStays
  <1> QED  BY <1>2, <1>3

LEMMA CleanupStep ==
    ASSUME NEW r, Replicas = {r}, ConditionsInv, CleanupInv(r), [Next]_vars
    PROVE  CleanupInv(r)'
  <1>1. r \in Replicas /\ TypeOK /\ TypeOK' /\ UidsOK
    BY StepTyped DEF ConditionsInv
  <1>2. CASE UNCHANGED vars
    BY <1>1, <1>2, KeptStays DEF vars, Labelled, Exists
  <1> QED  BY <1>1, <1>2, StageCleans, ReplicaCleans, NameCleans DEF Next

\* What a step of the clean-up deletes is in the excess.
LEMMA CleanupKeeps ==
    ASSUME NEW r, Replicas = {r}, TypeOK, CleanupInv(r), [Next]_vars, Deleted # {}
    PROVE  Cardinality(Labelled \ Deleted) + removed >= LeastLimit
  <1>1. \A m \in Deleted : m \in Names /\ ops[m].uid # 0 /\ ops'[m].uid = 0 /\ removed' = removed
    BY LabelledExist DEF Deleted
  <1>2. ASSUME NEW n \in Names,
               \/ \E s \in Scores : Score(n, s) \/ \E l \in Labels : Submit(n, s, l)
               \/ Review(n) \/ NoReview(n) \/ Store(n) \/ RemoveOps(n) \/ Advance(n)
        PROVE  FALSE
    <2>1. ASSUME RemoveOps(n) PROVE FALSE
      BY <1>1, <2>1 DEF RemoveOps, TypeOK
    <2>2. ASSUME ~RemoveOps(n) PROVE \A m \in Names : ops'[m].uid = 0 => ops[m].uid = 0
      <3>1. ASSUME Store(n), ops' # ops PROVE \A m \in Names : ops'[m].uid = 0 => ops[m].uid = 0
        <4>1. ops'[n].uid = lastUid + 1 /\ \A m \in Names \ {n} : ops'[m] = ops[m]
          BY <3>1 DEF Store, NoOperation, TypeOK
        <4> QED  BY <4>1 DEF TypeOK
      <3>2. ASSUME Advance(n) PROVE \A m \in Names : ops'[m].uid = ops[m].uid
        <4>1. ops'[n].uid = ops[n].uid /\ \A m \in Names \ {n} : ops'[m] = ops[m]
          BY <3>2 DEF Advance, Label, Start, End, Become, TypeOK, Operations
        <4> QED  BY <4>1
      <3>3. ASSUME NEW s \in Scores, Score(n, s) PROVE \A m \in Names : ops'[m].uid = ops[m].uid
        BY <3>3 DEF Score, TypeOK, Operations
      <3>4. ASSUME NEW s \in Scores, NEW l \in Labels, Submit(n, s, l) PROVE ops' = ops
        BY <3>4 DEF Submit
      <3>5. Review(n) \/ NoReview(n) => ops' = ops
        BY DEF Review, NoReview, Answer
      <3> QED  BY <1>2, <2>2, <3>1, <3>2, <3>3, <3>4, <3>5
    <2> QED  BY <1>1, <2>1, <2>2
  <1>3. CASE UNCHANGED ops
    BY <1>1, <1>3
  <1>4. CASE DeleteExcess(r)
    <2>1. PICK n \in pass[r].excess : ops' = [ops EXCEPT ![n] = NoOperation]
      BY <1>4 DEF DeleteExcess
    <2>2. Deleted \subseteq pass[r].excess
      BY <1>1, <2>1 DEF TypeOK
    <2>3. Labelled \ pass[r].excess \in SUBSET (Labelled \ Deleted)
      BY <2>2
    <2>4. Labelled \ pass[r].excess \in SUBSET Names /\ Labelled \ Deleted \in SUBSET Names
      BY LabelledExist
    <2>5. /\ IsFiniteSet(Labelled \ Deleted) /\ Cardinality(Labelled \ Deleted) \in Nat
          /\ Cardinality(Labelled \ pass[r].excess) \in Nat
      BY <2>4, FiniteNames
    <2>6. Cardinality(Labelled \ pass[r].excess) <= Cardinality(Labelled \ Deleted)
      BY <2>3, <2>5, FS_Subset
    <2>7. Cardinality(Labelled \ pass[r].excess) + removed >= LeastLimit
      BY <1>4 DEF DeleteExcess, CleanupInv
    <2> QED  BY <2>5, <2>6, <2>7, LimitsTyped DEF TypeOK
  <1>5. ASSUME NEW p \in Replicas, Stage(p) \/ CacheSync(p) \/ FailedCall(p) \/ Crash(p)
        PROVE  DeleteExcess(r) \/ UNCHANGED ops
    BY <1>5 DEF Stage, Reconcile, ListExcess, ListConditions, UpdateStatus,
                UpdateOwnReferenceToCluster, CacheSync, FailedCall, Crash
  <1>6. CASE UNCHANGED vars
    BY <1>3, <1>6 DEF vars
  <1> QED  BY <1>2, <1>3, <1>4, <1>5, <1>6 DEF Next

\* With one replica the clean-up leaves at least the limit, but for what users remove
\* themselves, for any number of operations and names that are used again.
THEOREM CleanupKeepsLimit == ASSUME NEW r, Replicas = {r} PROVE Spec => KeepsLimit
  <1>1. Init => ConditionsInv /\ CleanupInv(r)
    <2>1. Init => ~At(r, "delete")
      BY DEF Init, Idle, At
    <2> QED  BY <2>1, ConditionsStart DEF CleanupInv
  <1>2. ConditionsInv /\ CleanupInv(r) /\ [Next]_vars => ConditionsInv' /\ CleanupInv(r)'
    BY ConditionsStep, CleanupStep
  <1>3. ConditionsInv /\ CleanupInv(r) /\ [Next]_vars =>
          [Deleted # {} => Cardinality(Labelled \ Deleted) + removed >= LeastLimit]_vars
    BY CleanupKeeps DEF ConditionsInv
  <1> QED  BY <1>1, <1>2, <1>3, PTL DEF Spec, KeepsLimit
=============================================================================
