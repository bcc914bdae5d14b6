--------------------------- MODULE KeysProperties ---------------------------
(***************************************************************************)
(* The properties of Keys.                                                 *)
(***************************************************************************)
EXTENDS Keys

\* The private key is never replaced while Kubean stays installed: two replicas that
\* generate keys at once do not make the passwords encrypted for one of them useless.
KeyNeverReplaced == [][sk # 0 /\ bounds'.installs = bounds.installs => sk' = sk]_vars

\* What is published fits what is stored, at every moment, in spite of replicas that
\* start together, crashes and lost answers, until a new installation finds
\* the public key of the last one.
KeysFit == bounds.installs = 0 => pk \in {0, sk}

\* No process works before there is a private key; and a private key that Helm has not
\* given alone is published, or a process is about to publish it, as long as none is
\* stopped: nobody leaves the publication to somebody who has left it to others.
NothingForgotten ==
    /\ \A p \in Replicas : At(p, "run") => sk # 0
    /\ bounds.faults = 0 /\ chart.private = chart.public /\ sk # 0 =>
         pk # 0 \/ \E p \in Replicas : At(p, "create")

\* Every process gets to work in the end, with a private key, which is published if no
\* process was stopped before it could be, and Helm was not given the private key only.
Published ==
    <>[](/\ \A p \in Replicas : At(p, "run")
         /\ sk # 0
         /\ bounds.faults = 0 /\ chart.private = chart.public => pk # 0)

-----------------------------------------------------------------------------
(* The inductive invariant behind the safety properties. *)

\* A process that is about to publish has stored what it will publish, and nobody has
\* stored anything else since; no process has a current copy unless there is no private
\* key; and what Helm has published stays.
KeysInv ==
    /\ TypeOK
    /\ sk # 0 => current = {}
    /\ \A p \in Replicas : At(p, "update") => process[p].pair # 0
    /\ \A p \in Replicas : At(p, "create") => sk # 0 /\ process[p].pair = sk
    /\ chart.public # 0 => pk # 0
    /\ NothingForgotten
    /\ KeysFit
=============================================================================
