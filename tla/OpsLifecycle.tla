---------------------------- MODULE OpsLifecycle ----------------------------
(***************************************************************************)
(* What is promised about the ClusterOperations of one name, seen from     *)
(* outside: an incarnation is accepted under a uid that nothing had        *)
(* before, its inputs are frozen, it starts only when every input is       *)
(* frozen, it ends once, and what is frozen or ended stays so until the    *)
(* object is deleted.  ClusterOps keeps the promise with all the inputs of *)
(* an operation; Fleet builds on it, for the label of every operation.     *)
(***************************************************************************)
EXTENDS Naturals

CONSTANTS
    Inputs,     \* what an incarnation must freeze before it starts
    Given       \* the inputs that may be there when it is accepted

VARIABLES
    issued,         \* the last uid given out, to this name or another one
    incarnation,    \* the uid of the current incarnation, 0 for none
    phase,          \* of the current one: Absent, Pending, Running, ...
    frozen          \* the inputs it has frozen

lvars == <<issued, incarnation, phase, frozen>>

LTypeOK == /\ issued \in Nat /\ incarnation \in 0..issued
           /\ phase \in {"Absent", "Pending", "Running", "Succeeded", "Failed"}
           /\ frozen \subseteq Inputs

LInit == issued = 0 /\ incarnation = 0 /\ phase = "Absent" /\ frozen = {}

Accept == /\ phase = "Absent"
          /\ issued' = issued + 1 /\ incarnation' = issued'
          /\ phase' = "Pending" /\ frozen' \in SUBSET Given

\* Another name gets the uid.
Elsewhere == /\ issued' = issued + 1
             /\ UNCHANGED <<incarnation, phase, frozen>>

Freeze == /\ phase = "Pending"
          /\ frozen \subseteq frozen' /\ frozen' \in SUBSET Inputs
          /\ UNCHANGED <<issued, incarnation, phase>>

Start == /\ phase = "Pending" /\ frozen = Inputs
         /\ phase' = "Running"
         /\ UNCHANGED <<issued, incarnation, frozen>>

End(r) == /\ \/ phase = "Running"
             \/ phase = "Pending" /\ r = "Failed"
          /\ phase' = r
          /\ UNCHANGED <<issued, incarnation, frozen>>

Remove == /\ phase # "Absent"
          /\ incarnation' = 0 /\ phase' = "Absent" /\ frozen' = {}
          /\ UNCHANGED issued

LNext == \/ Accept \/ Elsewhere \/ Freeze \/ Start \/ Remove
         \/ \E r \in {"Succeeded", "Failed"} : End(r)

LSpec == LInit /\ [][LNext]_lvars
=============================================================================
