-------------------------------- MODULE Keys --------------------------------
(***************************************************************************)
(* The key pair of the operator: before it does anything else, a process   *)
(* looks into the ConfigMap kubean-config for the private key; if there is *)
(* none it generates a pair, stores the private key there and creates the  *)
(* ConfigMap kubean-pubkey.  The replicas start at the same time, and a    *)
(* process that fails exits and is started again.                          *)
(*                                                                         *)
(* Users encrypt with what kubean-pubkey has, jobs decrypt with what       *)
(* kubean-config has.  A pair is a number.                                 *)
(***************************************************************************)
EXTENDS Integers

CONSTANTS
    Replicas,     \* operator processes
    MaxInstalls,  \* bound: installations that find a kubean-pubkey
    MaxFaults,    \* bound: failed calls and restarts
    MaxEdits      \* bound: changes of other entries of kubean-config

ASSUME BoundsAssumption == MaxInstalls \in Nat /\ MaxFaults \in Nat /\ MaxEdits \in Nat

VARIABLES
    chart,     \* the private and the public key that Helm is given, 0 for none
    sk,        \* the private key in kubean-config, 0 if there is none
    pk,        \* the public key in kubean-pubkey, 0 if there is no such ConfigMap
    process,   \* process[p]: the next call of InitConfiguration, and the pair generated
    current,   \* processes whose copy of kubean-config is still what is stored
    lastPair,  \* the last pair generated
    bounds     \* installations, faults and edits so far

vars == <<chart, sk, pk, process, current, lastPair, bounds>>

Charts == {[private |-> 0, public |-> 0], [private |-> 1, public |-> 0],
           [private |-> 1, public |-> 1]}

Processes == [at: {"get", "update", "create", "run"}, pair: Nat]
Started == [at |-> "get", pair |-> 0]

TypeOK ==
    /\ chart \in Charts
    /\ sk \in Nat /\ pk \in Nat
    /\ process \in [Replicas -> Processes]
    /\ current \subseteq Replicas
    /\ lastPair \in Nat
    /\ bounds \in [installs: Nat, faults: Nat, edits: Nat]

Init ==
    /\ chart \in Charts
    /\ sk = chart.private /\ pk = chart.public
    /\ process = [p \in Replicas |-> Started]
    /\ current = {}
    /\ lastPair = 1
    /\ bounds = [installs |-> 0, faults |-> 0, edits |-> 0]

-----------------------------------------------------------------------------
(* InitConfiguration. *)

At(p, s) == process[p].at = s

\* Mutant: the process stays down.
Restart_Never(p) == process' = [process EXCEPT ![p] = [at |-> "down", pair |-> 0]]

\* The error ends StartManager and the process; it is started again.
Restart(p) == process' = [process EXCEPT ![p] = Started]

\* Every call makes a pair unlike all others.
GenerateRSAKeyPairB64 == lastPair + 1

\* With a private key there is nothing to do, whatever has become of the public one.
GetConfig(p) ==
    /\ At(p, "get")
    /\ IF sk # 0
       THEN /\ process' = [process EXCEPT ![p].at = "run"]
            /\ UNCHANGED <<current, lastPair>>
       ELSE /\ process' = [process EXCEPT ![p].at = "update", ![p].pair = GenerateRSAKeyPairB64]
            /\ lastPair' = GenerateRSAKeyPairB64
            /\ current' = current \cup {p}
    /\ UNCHANGED <<chart, sk, pk, bounds>>

\* Mutant: the last writer wins.
UpdateConfig_Forces(p) ==
    /\ At(p, "update")
    /\ sk' = process[p].pair /\ current' = {}
    /\ process' = [process EXCEPT ![p].at = "create"]
    /\ UNCHANGED <<chart, pk, lastPair, bounds>>

\* Mutant: a refused update is ignored.
UpdateConfig_Ignores(p) ==
    /\ At(p, "update")
    /\ IF p \in current THEN sk' = process[p].pair /\ current' = {}
       ELSE UNCHANGED <<sk, current>>
    /\ process' = [process EXCEPT ![p].at = "create"]
    /\ UNCHANGED <<chart, pk, lastPair, bounds>>

\* The update is refused if kubean-config has been changed since it was read.
UpdateConfig(p) ==
    /\ At(p, "update")
    /\ IF p \in current
       THEN /\ sk' = process[p].pair /\ current' = {}
            /\ process' = [process EXCEPT ![p].at = "create"]
       ELSE Restart(p) /\ UNCHANGED <<sk, current>>
    /\ UNCHANGED <<chart, pk, lastPair, bounds>>

\* Mutant: the public key is published only if it came from Helm.
CreatePubkey_Given(p) ==
    /\ At(p, "create")
    /\ process' = [process EXCEPT ![p].at = "run"]
    /\ pk' = IF pk = 0 THEN chart.public ELSE pk
    /\ UNCHANGED <<chart, sk, current, lastPair, bounds>>

\* A kubean-pubkey that is there stays; after the restart the private key is there too.
CreatePubkey(p) ==
    /\ At(p, "create")
    /\ IF pk = 0
       THEN /\ pk' = process[p].pair
            /\ process' = [process EXCEPT ![p].at = "run"]
       ELSE Restart(p) /\ UNCHANGED pk
    /\ UNCHANGED <<chart, sk, current, lastPair, bounds>>

InitConfiguration(p) == GetConfig(p) \/ UpdateConfig(p) \/ CreatePubkey(p)

-----------------------------------------------------------------------------
(* Failures, users and Helm. *)

Fault == bounds.faults < MaxFaults /\ bounds' = [bounds EXCEPT !.faults = @ + 1]

\* The process stops, or a call fails and so stops it.
Crash(p) ==
    /\ Fault
    /\ Restart(p)
    /\ current' = current \ {p}
    /\ UNCHANGED <<chart, sk, pk, lastPair>>

\* A write is accepted but not answered, which stops the process.
LostAnswer(p) ==
    /\ Fault
    /\ Restart(p)
    /\ \/ At(p, "update") /\ p \in current
          /\ sk' = process[p].pair /\ current' = {} /\ UNCHANGED pk
       \/ At(p, "create") /\ pk = 0
          /\ pk' = process[p].pair /\ UNCHANGED <<sk, current>>
    /\ UNCHANGED <<chart, lastPair>>

EditConfig ==
    /\ bounds.edits < MaxEdits
    /\ bounds' = [bounds EXCEPT !.edits = @ + 1]
    /\ current' = {}
    /\ UNCHANGED <<chart, sk, pk, process, lastPair>>

\* Helm removes the ConfigMaps that it has made, not the kubean-pubkey of the operator,
\* and makes them again; the processes are new.
Reinstall ==
    /\ bounds.installs < MaxInstalls
    /\ bounds' = [bounds EXCEPT !.installs = @ + 1]
    /\ sk' = chart.private
    /\ process' = [p \in Replicas |-> Started]
    /\ current' = {}
    /\ UNCHANGED <<chart, pk, lastPair>>

Next ==
    \/ EditConfig \/ Reinstall
    \/ \E p \in Replicas : InitConfiguration(p) \/ Crash(p) \/ LostAnswer(p)

Spec == Init /\ [][Next]_vars

\* A process goes on, and one that has exited is started again.
FairSpec == Spec /\ \A p \in Replicas : WF_vars(InitConfiguration(p))
=============================================================================
