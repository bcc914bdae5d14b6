----------------------------- MODULE Bootstrap -----------------------------
(***************************************************************************)
(* How the admission webhook comes up.  Every pod campaigns for a lease;   *)
(* the leader stores a certificate in a Secret, unless there is one, and   *)
(* puts it into the ValidatingWebhookConfiguration, once.  Meanwhile the   *)
(* pod waits for the Secret and serves with what it finds there.           *)
(*                                                                         *)
(* A pod that loses the lease goes on with its callback and never          *)
(* campaigns again; the code retries nothing but the wait.                 *)
(*                                                                         *)
(* Certificates are numbers, in the order of their generation; the bundle  *)
(* in the configuration is the server's certificate itself.                *)
(***************************************************************************)
EXTENDS Integers

CONSTANTS
    Pods,         \* names of pods, which are the identities in the lease
    Nobody,       \* no pod
    MaxRestarts,  \* bound: containers restarted
    MaxLosses,    \* bound: leases lost by a pod that runs
    MaxFaults,    \* bound: failed calls
    MaxEdits      \* bound: changes by users and by Helm

ASSUME NobodyAssumption == Nobody \notin Pods
ASSUME BoundsAssumption == /\ MaxRestarts \in Nat /\ MaxLosses \in Nat
                           /\ MaxFaults \in Nat /\ MaxEdits \in Nat

VARIABLES
    secret,    \* the certificate in the CA Secret, 0 if there is none
    config,    \* the webhook configuration: whether it exists, its bundle or 0
    lease,     \* the pod that holds the lease
    campaign,  \* campaign[p]: campaigning, leading, or over
    callback,  \* callback[p]: the next step of OnStartedLeading, and its certificate
    server,    \* server[p]: the main routine, and the certificate it serves
    current,   \* pods whose copy of the configuration is still what is stored
    lastCert,  \* the last certificate generated
    bounds     \* restarts, losses, faults and edits so far

vars == <<secret, config, lease, campaign, callback, server, current, lastCert, bounds>>

Configs == [exists: BOOLEAN, bundle: Nat]
NoConfig == [exists |-> FALSE, bundle |-> 0]
EmptyConfig == [exists |-> TRUE, bundle |-> 0]

Callbacks == [at: {"idle", "check", "create", "secret", "config", "write"},
              cert: Nat]
NoCallback == [at |-> "idle", cert |-> 0]

Servers == {[at |-> "wait", cert |-> 0]} \cup [at: {"files", "start", "serve"}, cert: Nat \ {0}]
Waiting == [at |-> "wait", cert |-> 0]

TypeOK ==
    /\ secret \in Nat
    /\ config \in Configs
    /\ lease \in Pods \cup {Nobody}
    /\ campaign \in [Pods -> {"campaigning", "leading", "over"}]
    /\ callback \in [Pods -> Callbacks]
    /\ server \in [Pods -> Servers]
    /\ current \subseteq Pods
    /\ lastCert \in Nat
    /\ bounds \in [restarts: Nat, losses: Nat, faults: Nat, edits: Nat]

\* A Secret may be left from an earlier installation, with its bundle or without.
Init ==
    /\ secret \in {0, 1}
    /\ config \in {NoConfig, EmptyConfig} \cup {[exists |-> TRUE, bundle |-> secret]}
    /\ lease = Nobody
    /\ campaign = [p \in Pods |-> "campaigning"]
    /\ callback = [p \in Pods |-> NoCallback]
    /\ server = [p \in Pods |-> Waiting]
    /\ current = {}
    /\ lastCert = secret
    /\ bounds = [restarts |-> 0, losses |-> 0, faults |-> 0, edits |-> 0]

-----------------------------------------------------------------------------
(* The lease. *)

\* RunOrDie gets the lease and starts the callback beside itself.
OnStartedLeading(p) ==
    /\ campaign[p] = "campaigning" /\ lease \in {Nobody, p}
    /\ lease' = p
    /\ campaign' = [campaign EXCEPT ![p] = "leading"]
    /\ callback' = [callback EXCEPT ![p] = [at |-> "check", cert |-> 0]]
    /\ UNCHANGED <<secret, config, server, current, lastCert, bounds>>

\* The lease of a pod that does not renew it runs out.
Expire ==
    /\ lease # Nobody /\ campaign[lease] # "leading"
    /\ lease' = Nobody
    /\ UNCHANGED <<secret, config, campaign, callback, server, current, lastCert, bounds>>

\* The renewals are late: RunOrDie returns, the callback goes on.
LoseLease(p) ==
    /\ campaign[p] = "leading"
    /\ bounds.losses < MaxLosses
    /\ bounds' = [bounds EXCEPT !.losses = @ + 1]
    /\ campaign' = [campaign EXCEPT ![p] = "over"]
    /\ UNCHANGED <<secret, config, lease, callback, server, current, lastCert>>

-----------------------------------------------------------------------------
(* The callback. *)

At(p, s) == callback[p].at = s
Goto(p, s, c) == callback' = [callback EXCEPT ![p] = [at |-> s, cert |-> c]]
Return(p) == callback' = [callback EXCEPT ![p] = NoCallback]

\* Every call makes a certificate unlike all others.
GenerateSelfSignedCerts == lastCert + 1

\* Mutant: nothing is left to do when there is a Secret.
CheckSecret_Returns(p) ==
    /\ At(p, "check")
    /\ IF secret # 0 THEN Return(p) /\ UNCHANGED lastCert
       ELSE /\ Goto(p, "create", GenerateSelfSignedCerts)
            /\ lastCert' = GenerateSelfSignedCerts
    /\ UNCHANGED <<secret, config, lease, campaign, server, current, bounds>>

\* EnsureCASecretExist: a certificate is generated only if there is no Secret.
CheckSecret(p) ==
    /\ At(p, "check")
    /\ IF secret # 0
       THEN Goto(p, "secret", 0) /\ UNCHANGED lastCert
       ELSE /\ Goto(p, "create", GenerateSelfSignedCerts)
            /\ lastCert' = GenerateSelfSignedCerts
    /\ UNCHANGED <<secret, config, lease, campaign, server, current, bounds>>

\* Mutant: a Secret that has come in between is replaced.
CreateSecret_Replaces(p) ==
    /\ At(p, "create")
    /\ secret' = callback[p].cert
    /\ Goto(p, "secret", 0)
    /\ UNCHANGED <<config, lease, campaign, server, current, lastCert, bounds>>

\* Another pod may have created it in between; then the callback has failed.
CreateSecret(p) ==
    /\ At(p, "create")
    /\ IF secret = 0
       THEN secret' = callback[p].cert /\ Goto(p, "secret", 0)
       ELSE Return(p) /\ UNCHANGED secret
    /\ UNCHANGED <<config, lease, campaign, server, current, lastCert, bounds>>

\* UpdateClusterOperationWebhook reads the Secret,
ReadSecret(p) ==
    /\ At(p, "secret")
    /\ IF secret = 0 THEN Return(p)
       ELSE Goto(p, "config", secret)
    /\ UNCHANGED <<secret, config, lease, campaign, server, current, lastCert, bounds>>

\* then the configuration, which may have the bundle already,
ReadConfig(p) ==
    /\ At(p, "config")
    /\ IF config.exists /\ config.bundle = callback[p].cert
       THEN Return(p) /\ UNCHANGED current
       ELSE /\ Goto(p, "write", callback[p].cert)
            /\ current' = current \cup {p}
    /\ UNCHANGED <<secret, config, lease, campaign, server, lastCert, bounds>>

\* and creates or updates it, unless it has been changed since.
WriteConfig(p) ==
    /\ At(p, "write")
    /\ IF p \in current
       THEN config' = [exists |-> TRUE, bundle |-> callback[p].cert] /\ current' = {}
       ELSE UNCHANGED <<config, current>>
    /\ Return(p)
    /\ UNCHANGED <<secret, lease, campaign, server, lastCert, bounds>>

Callback(p) == \/ CheckSecret(p) \/ CreateSecret(p) \/ ReadSecret(p)
               \/ ReadConfig(p) \/ WriteConfig(p)

-----------------------------------------------------------------------------
(* The main routine. *)

\* Mutant: what is read is taken as it is.
WaitForCASecretExist_Blind(p) ==
    /\ server[p].at = "wait"
    /\ server' = [server EXCEPT ![p] = [at |-> "files", cert |-> secret]]
    /\ UNCHANGED <<secret, config, lease, campaign, callback, current, lastCert, bounds>>

\* Tried again for as long as there is no Secret with its two entries.
WaitForCASecretExist(p) ==
    /\ server[p].at = "wait" /\ secret # 0
    /\ server' = [server EXCEPT ![p] = [at |-> "files", cert |-> secret]]
    /\ UNCHANGED <<secret, config, lease, campaign, callback, current, lastCert, bounds>>

\* The container starts without files, so what has been read is written,
CreateHTTPSCAFilesFromSecret(p) ==
    /\ server[p].at = "files"
    /\ server' = [server EXCEPT ![p].at = "start"]
    /\ UNCHANGED <<secret, config, lease, campaign, callback, current, lastCert, bounds>>

\* and the server reads it once.
StartWebHookHTTPSServer(p) ==
    /\ server[p].at = "start"
    /\ server' = [server EXCEPT ![p].at = "serve"]
    /\ UNCHANGED <<secret, config, lease, campaign, callback, current, lastCert, bounds>>

MainRoutine(p) == \/ WaitForCASecretExist(p) \/ CreateHTTPSCAFilesFromSecret(p)
                  \/ StartWebHookHTTPSServer(p)

-----------------------------------------------------------------------------
(* Failed calls, restarts, users and Helm. *)

\* A Secret that cannot be read for the check counts as one that is there; any other
\* failed call ends the callback, which only a restart repeats.  The Secret may have
\* been created all the same.
FailedCall(p) ==
    /\ bounds.faults < MaxFaults
    /\ bounds' = [bounds EXCEPT !.faults = @ + 1]
    /\ \/ /\ At(p, "check") /\ Goto(p, "secret", 0)
          /\ UNCHANGED secret
       \/ /\ callback[p].at \notin {"idle", "check"} /\ Return(p)
          /\ UNCHANGED secret
       \/ /\ At(p, "create") /\ secret = 0 /\ Return(p)
          /\ secret' = callback[p].cert
    /\ UNCHANGED <<config, lease, campaign, server, current, lastCert>>

\* The container is restarted, in the same pod and so with the same identity.
Crash(p) ==
    /\ bounds.restarts < MaxRestarts
    /\ bounds' = [bounds EXCEPT !.restarts = @ + 1]
    /\ campaign' = [campaign EXCEPT ![p] = "campaigning"]
    /\ Return(p)
    /\ server' = [server EXCEPT ![p] = Waiting]
    /\ current' = current \ {p}
    /\ UNCHANGED <<secret, config, lease, lastCert>>

\* The Secret is removed; the configuration is removed, or made anew by Helm, which
\* creates it after the pods.
Edit ==
    /\ bounds.edits < MaxEdits
    /\ bounds' = [bounds EXCEPT !.edits = @ + 1]
    /\ \/ secret' = 0 /\ UNCHANGED <<config, current>>
       \/ /\ config' \in IF config.exists THEN {NoConfig, EmptyConfig} ELSE {EmptyConfig}
          /\ current' = {} /\ UNCHANGED secret
    /\ UNCHANGED <<lease, campaign, callback, server, lastCert>>

Next ==
    \/ Expire \/ Edit
    \/ \E p \in Pods : \/ OnStartedLeading(p) \/ LoseLease(p) \/ Callback(p)
                       \/ MainRoutine(p) \/ FailedCall(p) \/ Crash(p)

Spec == Init /\ [][Next]_vars

\* A free lease is taken, the routines of a pod go on, and time passes.
Fairness == /\ WF_vars(Expire)
            /\ \A p \in Pods : /\ WF_vars(OnStartedLeading(p)) /\ WF_vars(Callback(p))
                               /\ WF_vars(MainRoutine(p))

FairSpec == Spec /\ Fairness
=============================================================================
