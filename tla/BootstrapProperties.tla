------------------------ MODULE BootstrapProperties ------------------------
(***************************************************************************)
(* The properties of Bootstrap.                                            *)
(***************************************************************************)
EXTENDS Bootstrap

\* As long as nobody removes the Secret, everything agrees on one certificate: what
\* any pod serves, or is about to put into the configuration, and the bundle the API
\* server trusts, whichever pods have led, lost the lease and led at the same time.
ServingAgrees ==
    bounds.edits = 0 =>
        /\ \A p \in Pods : server[p].cert \in {0, secret}
        /\ config.bundle \in {0, secret}

\* What the start-up survives: restarts, or leases that are lost, but not both, for a
\* pod that comes back finds a leader that has given up.
Undisturbed == /\ bounds.edits = 0 /\ bounds.faults = 0
               /\ bounds.restarts = 0 \/ bounds.losses = 0

\* The API server trusts the certificate that is stored.
Done == secret # 0 /\ config.bundle = secret

\* The start-up never stalls: until it is done a callback is at work, or every pod
\* campaigns for a lease that no pod will renew.  No callback gives up, because
\* another one was faster, when that one has not done the work or goes on with it.
NoStall == Undisturbed => \/ Done
                          \/ \E p \in Pods : callback[p].at # "idle"
                          \/ \A p \in Pods : campaign[p] = "campaigning"

\* Then all pods end up serving, with the certificate that the API server trusts.
ComesUp ==
    <>[](Undisturbed => /\ secret # 0 /\ config.bundle = secret
                        /\ \A p \in Pods : server[p] = [at |-> "serve", cert |-> secret])

-----------------------------------------------------------------------------
(* The inductive invariant behind ServingAgrees and NoStall. *)

\* Only the certificate that is stored gets anywhere: to a server, to a callback that
\* has read the Secret, and to the configuration.
Agreed ==
    /\ \A p \in Pods : server[p].cert \in {0, secret}
    /\ \A p \in Pods : callback[p].at \in {"config", "write"} =>
                        secret # 0 /\ callback[p].cert = secret
    /\ config.bundle \in {0, secret}

\* A callback that has seen the Secret will do the work.
Late == Done \/ \E q \in Pods : callback[q].at \in {"secret", "config", "write"}

\* A pod that leads has the lease, and only who leads or has led has a callback.
LeaseInv ==
    /\ \A p \in Pods : campaign[p] = "leading" => lease = p
    /\ \A p \in Pods : campaign[p] = "campaigning" => At(p, "idle")
    /\ bounds.losses = 0 => \A p \in Pods : campaign[p] # "over"

\* While nothing disturbs the start-up: who has led has not given up for nothing, and a
\* callback that cannot create the Secret, or write the configuration, has been outrun.
StallInv ==
    /\ \A p \in Pods : callback[p].at \in {"secret", "config", "write"} => secret # 0
    /\ \A p \in Pods : At(p, "write") /\ p \notin current => Done
    /\ \A p \in Pods : campaign[p] # "campaigning" /\ At(p, "idle") => Late
    /\ \A p \in Pods : At(p, "create") /\ secret # 0 => Late

BootstrapInv ==
    /\ TypeOK
    /\ \A p \in Pods : At(p, "create") => callback[p].cert # 0
    /\ LeaseInv
    /\ bounds.edits = 0 => Agreed
    /\ Undisturbed => StallInv
=============================================================================
