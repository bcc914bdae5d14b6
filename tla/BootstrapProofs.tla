-------------------------- MODULE BootstrapProofs --------------------------
(***************************************************************************)
(* What is served is what is stored and what is trusted, and the start-up  *)
(* does not stall, for any number of pods, restarts, lost leases and       *)
(* failed calls.                                                           *)
(***************************************************************************)
EXTENDS BootstrapProperties, TLAPS

USE NobodyAssumption

LEMMA NoCallbackType == NoCallback \in Callbacks
  BY DEF NoCallback, Callbacks

LEMMA ConfigTypes ==
    /\ NoConfig \in Configs /\ NoConfig.bundle = 0
    /\ EmptyConfig \in Configs /\ EmptyConfig.bundle = 0
    /\ \A c \in Nat : [exists |-> TRUE, bundle |-> c] \in Configs
  BY DEF NoConfig, EmptyConfig, Configs

LEMMA ServerTypes ==
    /\ Waiting \in Servers
    /\ \A c \in Nat \ {0}, s \in {"files", "start", "serve"} : [at |-> s, cert |-> c] \in Servers
  BY DEF Waiting, Servers

LEMMA InitConfig == Init => config \in Configs /\ config.bundle \in {0, secret}
<1> SUFFICES ASSUME Init PROVE config \in Configs /\ config.bundle \in {0, secret}
  OBVIOUS
<1>1. CASE config \in {NoConfig, EmptyConfig}
  BY <1>1, ConfigTypes
<1>2. CASE config = [exists |-> TRUE, bundle |-> secret]
  BY <1>2, ConfigTypes DEF Init
<1> QED BY <1>1, <1>2 DEF Init

LEMMA InitType == Init => TypeOK
<1> SUFFICES ASSUME Init PROVE TypeOK
  OBVIOUS
<1>1. callback \in [Pods -> Callbacks] /\ server \in [Pods -> Servers]
  BY NoCallbackType, ServerTypes DEF Init
<1> QED BY <1>1, InitConfig, SMT DEF Init, TypeOK

-----------------------------------------------------------------------------
(* The types. *)

LEMMA CallbackType ==
  ASSUME TypeOK, NEW p \in Pods, Callback(p)
  PROVE  TypeOK'
<1> USE DEF TypeOK, At, Goto, Return
<1>1. \A s \in {"idle", "check", "create", "secret", "config", "write"} :
        \A c \in Nat : [at |-> s, cert |-> c] \in Callbacks
  BY DEF Callbacks
<1>2. callback[p].cert \in Nat /\ secret \in Nat /\ lastCert + 1 \in Nat
  BY SMT DEF Callbacks
<1>3. CASE CheckSecret(p)
  BY <1>1, <1>2, <1>3, SMT DEF CheckSecret, GenerateSelfSignedCerts
<1>4. CASE CreateSecret(p)
  BY <1>1, <1>2, <1>4, NoCallbackType, SMT DEF CreateSecret
<1>5. CASE ReadSecret(p)
  BY <1>1, <1>2, <1>5, NoCallbackType, SMT DEF ReadSecret
<1>6. CASE ReadConfig(p)
  BY <1>1, <1>2, <1>6, NoCallbackType, SMT DEF ReadConfig
<1>7. CASE WriteConfig(p)
  BY <1>2, <1>7, NoCallbackType, ConfigTypes, SMT DEF WriteConfig
<1> QED BY <1>3, <1>4, <1>5, <1>6, <1>7 DEF Callback

LEMMA StepType == TypeOK /\ [Next]_vars => TypeOK'
<1> SUFFICES ASSUME TypeOK, [Next]_vars PROVE TypeOK'
  OBVIOUS
<1> USE DEF TypeOK
<1>1. CASE Expire
  BY <1>1, SMT DEF Expire
<1>2. CASE Edit
  BY <1>2, ConfigTypes, SMT DEF Edit
<1>3. ASSUME NEW p \in Pods, Callback(p)
      PROVE  TypeOK'
  BY <1>3, CallbackType
<1>4. ASSUME NEW p \in Pods, OnStartedLeading(p) \/ LoseLease(p)
      PROVE  TypeOK'
  <2>1. [at |-> "check", cert |-> 0] \in Callbacks
    BY DEF Callbacks
  <2>2. CASE OnStartedLeading(p)
    BY <2>1, <2>2, SMT DEF OnStartedLeading
  <2>3. CASE LoseLease(p)
    BY <2>3, SMT DEF LoseLease
  <2> QED BY <1>4, <2>2, <2>3
<1>5. ASSUME NEW p \in Pods, MainRoutine(p)
      PROVE  TypeOK'
  <2>1. CASE WaitForCASecretExist(p)
    <3>1. [at |-> "files", cert |-> secret] \in Servers
      BY <2>1, ServerTypes DEF WaitForCASecretExist
    <3> QED BY <2>1, <3>1, SMT DEF WaitForCASecretExist
  <2>2. CASE CreateHTTPSCAFilesFromSecret(p)
    <3>1. [server[p] EXCEPT !.at = "start"] \in Servers
      BY <2>2, SMT DEF CreateHTTPSCAFilesFromSecret, Servers
    <3> QED BY <2>2, <3>1, SMT DEF CreateHTTPSCAFilesFromSecret
  <2>3. CASE StartWebHookHTTPSServer(p)
    <3>1. [server[p] EXCEPT !.at = "serve"] \in Servers
      BY <2>3, SMT DEF StartWebHookHTTPSServer, Servers
    <3> QED BY <2>3, <3>1, SMT DEF StartWebHookHTTPSServer
  <2> QED BY <1>5, <2>1, <2>2, <2>3 DEF MainRoutine
<1>6. ASSUME NEW p \in Pods, FailedCall(p)
      PROVE  TypeOK'
  <2>1. [at |-> "secret", cert |-> 0] \in Callbacks /\ callback[p].cert \in Nat
    BY DEF Callbacks
  <2> QED BY <1>6, <2>1, NoCallbackType, SMT DEF FailedCall, At, Goto, Return
<1>7. ASSUME NEW p \in Pods, Crash(p)
      PROVE  TypeOK'
  BY <1>7, NoCallbackType, ServerTypes, SMT DEF Crash, Return
<1>8. CASE UNCHANGED vars
  BY <1>8, SMT DEF vars
<1> QED BY <1>1, <1>2, <1>3, <1>4, <1>5, <1>6, <1>7, <1>8 DEF Next

-----------------------------------------------------------------------------
(* What is stored is all there is. *)

LEMMA InitAgreed == Init => BootstrapInv
<1> SUFFICES ASSUME Init PROVE BootstrapInv
  OBVIOUS
<1>1. config.bundle \in {0, secret}
  BY InitConfig
<1>2. \A p \in Pods : callback[p].at = "idle" /\ server[p].cert = 0
  BY DEF Init, NoCallback, Waiting
<1>3. LeaseInv
  BY <1>2 DEF Init, LeaseInv, At
<1>4. StallInv
  BY <1>2, SMT DEF Init, StallInv, At
<1> QED BY <1>1, <1>2, <1>3, <1>4, InitType, SMT DEF BootstrapInv, Agreed, At

\* A callback that has a certificate to store has one.
LEMMA StepCert ==
  ASSUME BootstrapInv, [Next]_vars, NEW q \in Pods, At(q, "create")'
  PROVE  callback'[q].cert # 0
<1> USE DEF BootstrapInv, TypeOK, At
<1>1. ASSUME NEW p \in Pods, Callback(p)
      PROVE  callback'[q].cert # 0
  <2> USE DEF Goto, Return, NoCallback
  <2>1. CASE CheckSecret(p)
    BY <2>1, SMT DEF CheckSecret, GenerateSelfSignedCerts
  <2>2. CASE CreateSecret(p)
    BY <2>2, SMT DEF CreateSecret
  <2>3. CASE ReadSecret(p)
    BY <2>3, SMT DEF ReadSecret
  <2>4. CASE ReadConfig(p)
    BY <2>4, SMT DEF ReadConfig
  <2>5. CASE WriteConfig(p)
    BY <2>5, SMT DEF WriteConfig
  <2> QED BY <1>1, <2>1, <2>2, <2>3, <2>4, <2>5 DEF Callback
<1>2. ASSUME NEW p \in Pods, OnStartedLeading(p) \/ FailedCall(p) \/ Crash(p)
      PROVE  callback'[q].cert # 0
  BY <1>2, SMT DEF OnStartedLeading, FailedCall, Crash, Goto, Return, NoCallback
<1>3. ASSUME UNCHANGED callback
      PROVE  callback'[q].cert # 0
  BY <1>3, SMT
<1> QED BY <1>1, <1>2, <1>3 DEF Next, vars, Expire, Edit, LoseLease, MainRoutine,
           WaitForCASecretExist, CreateHTTPSCAFilesFromSecret, StartWebHookHTTPSServer

\* The callback stores a certificate only where there is none, and puts only what it has
\* read from the Secret into the configuration.
LEMMA CallbackAgrees ==
  ASSUME BootstrapInv, Agreed, NEW p \in Pods, Callback(p)
  PROVE  Agreed'
<1> USE DEF BootstrapInv, TypeOK, Agreed, At, Goto, Return, NoCallback
<1>1. CASE CheckSecret(p)
  BY <1>1, SMT DEF CheckSecret, GenerateSelfSignedCerts
<1>2. CASE CreateSecret(p)
  BY <1>2, SMT DEF CreateSecret
<1>3. CASE ReadSecret(p)
  BY <1>3, SMT DEF ReadSecret
<1>4. CASE ReadConfig(p)
  BY <1>4, SMT DEF ReadConfig
<1>5. CASE WriteConfig(p)
  BY <1>5, SMT DEF WriteConfig
<1> QED BY <1>1, <1>2, <1>3, <1>4, <1>5 DEF Callback

LEMMA StepAgreed ==
  ASSUME BootstrapInv, [Next]_vars, bounds'.edits = 0
  PROVE  Agreed'
<1>1. bounds.edits = 0
  BY SMT DEF Next, vars, BootstrapInv, TypeOK, Expire, Edit, OnStartedLeading, LoseLease,
             Callback, CheckSecret, GenerateSelfSignedCerts, CreateSecret, ReadSecret,
             ReadConfig, WriteConfig,
             MainRoutine, WaitForCASecretExist, CreateHTTPSCAFilesFromSecret,
             StartWebHookHTTPSServer, FailedCall, Crash
<1>2. Agreed
  BY <1>1 DEF BootstrapInv
<1>3. ASSUME NEW p \in Pods, Callback(p)
      PROVE  Agreed'
  BY <1>2, <1>3, CallbackAgrees
<1> USE <1>2 DEF Agreed, BootstrapInv, TypeOK
<1>4. ASSUME NEW p \in Pods, OnStartedLeading(p) \/ LoseLease(p)
      PROVE  Agreed'
  BY <1>4, SMT DEF OnStartedLeading, LoseLease
<1>5. ASSUME NEW p \in Pods, MainRoutine(p)
      PROVE  Agreed'
  <2>1. CASE WaitForCASecretExist(p)
    BY <2>1, SMT DEF WaitForCASecretExist
  <2>2. CASE CreateHTTPSCAFilesFromSecret(p)
    <3>1. server'[p].cert = server[p].cert
      BY <2>2, SMT DEF CreateHTTPSCAFilesFromSecret, Servers
    <3> QED BY <2>2, <3>1, SMT DEF CreateHTTPSCAFilesFromSecret
  <2>3. CASE StartWebHookHTTPSServer(p)
    <3>1. server'[p].cert = server[p].cert
      BY <2>3, SMT DEF StartWebHookHTTPSServer, Servers
    <3> QED BY <2>3, <3>1, SMT DEF StartWebHookHTTPSServer
  <2> QED BY <1>5, <2>1, <2>2, <2>3 DEF MainRoutine
<1>6. ASSUME NEW p \in Pods, FailedCall(p)
      PROVE  Agreed'
  BY <1>6, SMT DEF FailedCall, At, Goto, Return, NoCallback
<1>7. ASSUME NEW p \in Pods, Crash(p)
      PROVE  Agreed'
  BY <1>7, SMT DEF Crash, Return, NoCallback, Waiting
<1>8. CASE Expire \/ UNCHANGED vars
  BY <1>8, SMT DEF Expire, vars
<1>9. ~Edit
  BY SMT DEF Edit
<1> QED BY <1>3, <1>4, <1>5, <1>6, <1>7, <1>8, <1>9 DEF Next

-----------------------------------------------------------------------------
(* The start-up does not stall. *)

\* The lease has one leader, and nobody has a callback but who leads or has led.
LEMMA StepLease ==
  ASSUME BootstrapInv, [Next]_vars
  PROVE  LeaseInv'
<1> USE DEF BootstrapInv, LeaseInv, TypeOK, At
<1>1. ASSUME NEW p \in Pods, Callback(p)
      PROVE  LeaseInv'
  <2>1. UNCHANGED <<lease, campaign, bounds>>
    BY <1>1 DEF Callback, CheckSecret, CreateSecret, ReadSecret, ReadConfig, WriteConfig
  <2>2. \A q \in Pods \ {p} : callback'[q] = callback[q]
    BY <1>1 DEF Callback, CheckSecret, CreateSecret, ReadSecret, ReadConfig, WriteConfig,
                Goto, Return
  <2>3. callback[p].at # "idle"
    BY <1>1 DEF Callback, CheckSecret, CreateSecret, ReadSecret, ReadConfig, WriteConfig
  <2> QED BY <2>1, <2>2, <2>3, SMT
<1>2. ASSUME NEW p \in Pods, OnStartedLeading(p)
      PROVE  LeaseInv'
  BY <1>2, SMT DEF OnStartedLeading
<1>3. ASSUME NEW p \in Pods, LoseLease(p)
      PROVE  LeaseInv'
  BY <1>3, SMT DEF LoseLease
<1>4. ASSUME NEW p \in Pods, FailedCall(p)
      PROVE  LeaseInv'
  <2>1. UNCHANGED <<lease, campaign>> /\ bounds'.losses = bounds.losses
    BY <1>4, SMT DEF FailedCall
  <2>2. \A q \in Pods \ {p} : callback'[q] = callback[q]
    BY <1>4 DEF FailedCall, Goto, Return
  <2>3. callback[p].at # "idle"
    BY <1>4 DEF FailedCall
  <2> QED BY <2>1, <2>2, <2>3, SMT
<1>5. ASSUME NEW p \in Pods, Crash(p)
      PROVE  LeaseInv'
  BY <1>5, SMT DEF Crash, Return, NoCallback
<1>6. CASE Expire
  BY <1>6, SMT DEF Expire
<1>7. ASSUME UNCHANGED <<lease, campaign, callback>>, bounds'.losses = bounds.losses
      PROVE  LeaseInv'
  BY <1>7
<1>8. CASE Edit
  BY <1>7, <1>8, SMT DEF Edit
<1>9. ASSUME NEW p \in Pods, MainRoutine(p)
      PROVE  LeaseInv'
  BY <1>7, <1>9 DEF MainRoutine, WaitForCASecretExist, CreateHTTPSCAFilesFromSecret,
                    StartWebHookHTTPSServer
<1>10. CASE UNCHANGED vars
  BY <1>7, <1>10 DEF vars
<1> QED BY <1>1, <1>2, <1>3, <1>4, <1>5, <1>6, <1>8, <1>9, <1>10 DEF Next

\* What can be said of callbacks that a step leaves alone.
LEMMA Undone ==
  ASSUME Late, Done => Done',
         \A q \in Pods : callback[q].at \in {"secret", "config", "write"} =>
                          callback'[q].at \in {"secret", "config", "write"} \/ Done'
  PROVE  Late'
BY DEF Late

\* A callback ends only when the work is done, or another one is going to do it.
LEMMA CallbackGoesOn ==
  ASSUME BootstrapInv, Agreed, StallInv, NEW p \in Pods, Callback(p)
  PROVE  StallInv'
<1> DEFINE Sees(c) == c.at \in {"secret", "config", "write"}
<1>1. UNCHANGED campaign /\ campaign[p] # "campaigning"
  BY DEF Callback, CheckSecret, CreateSecret, ReadSecret, ReadConfig, WriteConfig,
         BootstrapInv, LeaseInv, At
<1>2. \A q \in Pods \ {p} : callback'[q] = callback[q]
  BY DEF Callback, CheckSecret, CreateSecret, ReadSecret, ReadConfig, WriteConfig,
         Goto, Return, BootstrapInv, TypeOK
<1> USE DEF BootstrapInv, TypeOK, At, Goto, Return, NoCallback, Done, Agreed
<1>3. CASE CheckSecret(p)
  <2>1. UNCHANGED <<secret, config, current>>
    BY <1>3 DEF CheckSecret
  <2>2. \/ secret # 0 /\ callback'[p].at = "secret"
        \/ secret = 0 /\ callback'[p].at = "create"
    BY <1>3 DEF CheckSecret
  <2>3. callback[p].at = "check"
    BY <1>3 DEF CheckSecret
  <2>4. Late => Late'
    BY <1>2, <2>1, <2>3, Undone
  <2> QED BY <1>1, <1>2, <2>1, <2>2, <2>3, <2>4, Zenon DEF StallInv
<1>4. CASE CreateSecret(p)
  <2>1. UNCHANGED <<config, current>> /\ callback[p].at = "create"
    BY <1>4 DEF CreateSecret
  <2>2. CASE secret = 0
    <3>1. secret' # 0 /\ callback'[p].at = "secret"
      BY <1>4, <2>2 DEF CreateSecret
    <3>2. Late'
      BY <3>1 DEF Late
    <3>3. \A q \in Pods : ~Sees(callback[q])
      BY <2>2 DEF StallInv
    <3> QED BY <1>1, <1>2, <2>1, <3>1, <3>2, <3>3 DEF StallInv
  <2>3. CASE secret # 0
    <3>1. UNCHANGED secret /\ callback'[p].at = "idle"
      BY <1>4, <2>3 DEF CreateSecret
    <3>2. Late
      BY <2>1, <2>3 DEF StallInv
    <3>3. Late'
      BY <1>2, <2>1, <3>1, <3>2, Undone
    <3> QED BY <1>1, <1>2, <2>1, <3>1, <3>3 DEF StallInv
  <2> QED BY <2>2, <2>3
<1>5. CASE ReadSecret(p)
  <2>1. UNCHANGED <<secret, config, current>> /\ callback[p].at = "secret"
    BY <1>5 DEF ReadSecret
  <2>2. secret # 0 /\ callback'[p].at = "config"
    BY <1>5, <2>1 DEF ReadSecret, StallInv
  <2>3. Late'
    BY <2>2 DEF Late
  <2> QED BY <1>1, <1>2, <2>1, <2>2, <2>3 DEF StallInv
<1>6. CASE ReadConfig(p)
  <2>1. /\ UNCHANGED <<secret, config>> /\ callback[p].at = "config"
        /\ secret # 0 /\ callback[p].cert = secret
    BY <1>6 DEF ReadConfig, StallInv
  <2>2. \/ callback'[p].at = "idle" /\ current' = current /\ Done
        \/ callback'[p].at = "write" /\ current' = current \cup {p}
    BY <1>6, <2>1 DEF ReadConfig
  <2>3. Late'
    BY <2>1, <2>2 DEF Late
  <2> QED BY <1>1, <1>2, <2>1, <2>2, <2>3 DEF StallInv
<1>7. CASE WriteConfig(p)
  <2>1. /\ UNCHANGED secret /\ callback[p].at = "write" /\ callback'[p].at = "idle"
        /\ secret # 0 /\ callback[p].cert = secret
    BY <1>7 DEF WriteConfig, StallInv
  <2>2. Done'
    <3>1. CASE p \in current
      <4>1. config' = [exists |-> TRUE, bundle |-> callback[p].cert]
        BY <1>7, <3>1 DEF WriteConfig
      <4> QED BY <2>1, <4>1
    <3>2. CASE p \notin current
      BY <1>7, <2>1, <3>2 DEF WriteConfig, StallInv
    <3> QED BY <3>1, <3>2
  <2>3. Late'
    BY <2>2 DEF Late
  <2> QED BY <1>1, <1>2, <2>1, <2>2, <2>3 DEF StallInv
<1> QED BY <1>3, <1>4, <1>5, <1>6, <1>7 DEF Callback

\* A pod that stops in the middle of the callback had the lease: no other pod has
\* led, so nobody has left the work to it.
LEMMA CrashGoesOn ==
  ASSUME BootstrapInv, StallInv, NEW p \in Pods, Crash(p), bounds.losses = 0
  PROVE  StallInv'
<1> USE DEF BootstrapInv, LeaseInv, TypeOK, At
<1>1. /\ UNCHANGED <<secret, config>> /\ current' = current \ {p}
      /\ campaign'[p] = "campaigning" /\ callback'[p].at = "idle"
  BY DEF Crash, Return, NoCallback
<1>2. \A q \in Pods \ {p} : callback'[q] = callback[q] /\ campaign'[q] = campaign[q]
  BY DEF Crash, Return
<1>3. Done => Done'
  BY <1>1 DEF Done
<1>4. ASSUME NEW q \in Pods \ {p}, campaign[q] # "campaigning", Late
      PROVE  Late'
  <2>1. campaign[q] = "leading" /\ lease = q
    BY <1>4
  <2>2. campaign[p] = "campaigning" /\ callback[p].at = "idle"
    BY <2>1
  <2> QED BY <1>2, <1>3, <1>4, <2>2 DEF Late
<1>5. \A q \in Pods \ {p} : callback[q].at # "idle" => campaign[q] # "campaigning"
  OBVIOUS
<1> QED BY <1>1, <1>2, <1>3, <1>4, <1>5 DEF StallInv

LEMMA StepGoesOn ==
  ASSUME BootstrapInv, [Next]_vars, Undisturbed'
  PROVE  StallInv'
<1> USE DEF BootstrapInv, TypeOK, At
<1>1. ASSUME UNCHANGED bounds
      PROVE  Agreed /\ StallInv
  BY <1>1 DEF Undisturbed
<1>2. ASSUME NEW p \in Pods, Callback(p)
      PROVE  StallInv'
  <2>1. UNCHANGED bounds
    BY <1>2 DEF Callback, CheckSecret, CreateSecret, ReadSecret, ReadConfig, WriteConfig
  <2> QED BY <1>1, <1>2, <2>1, CallbackGoesOn
<1>3. ASSUME NEW p \in Pods, OnStartedLeading(p)
      PROVE  StallInv'
  <2>1. StallInv /\ UNCHANGED <<secret, config, current>>
    BY <1>1, <1>3 DEF OnStartedLeading
  <2>2. \A q \in Pods \ {p} : callback'[q] = callback[q] /\ campaign'[q] = campaign[q]
    BY <1>3 DEF OnStartedLeading
  <2>3. callback[p].at = "idle" /\ callback'[p].at = "check"
    BY <1>3 DEF OnStartedLeading, LeaseInv
  <2>4. Late => Late'
    BY <2>1, <2>2, <2>3 DEF Late, Done
  <2> QED BY <2>1, <2>2, <2>3, <2>4 DEF StallInv, Done
<1>4. ASSUME NEW p \in Pods, LoseLease(p)
      PROVE  StallInv'
  <2>1. StallInv
    BY <1>4, SMT DEF LoseLease, Undisturbed
  <2>2. UNCHANGED <<secret, config, current, callback>>
    BY <1>4 DEF LoseLease
  <2>3. \A q \in Pods : campaign'[q] # "campaigning" => campaign[q] # "campaigning"
    BY <1>4 DEF LoseLease
  <2> QED BY <2>1, <2>2, <2>3 DEF StallInv, Done, Late
<1>5. ASSUME NEW p \in Pods, Crash(p)
      PROVE  StallInv'
  <2>1. StallInv /\ bounds.losses = 0
    BY <1>5, SMT DEF Crash, Undisturbed
  <2> QED BY <1>5, <2>1, CrashGoesOn
<1>6. ASSUME UNCHANGED <<secret, config, current, callback, campaign, bounds>>
      PROVE  StallInv'
  BY <1>1, <1>6 DEF StallInv, Done, Late
<1>7. ASSUME NEW p \in Pods, MainRoutine(p)
      PROVE  StallInv'
  BY <1>6, <1>7 DEF MainRoutine, WaitForCASecretExist, CreateHTTPSCAFilesFromSecret,
                    StartWebHookHTTPSServer
<1>8. CASE Expire \/ UNCHANGED vars
  BY <1>6, <1>8 DEF Expire, vars
<1>9. ~Edit /\ \A p \in Pods : ~FailedCall(p)
  BY SMT DEF Edit, FailedCall, Undisturbed
<1> QED BY <1>2, <1>3, <1>4, <1>5, <1>7, <1>8, <1>9 DEF Next

-----------------------------------------------------------------------------

\* Every variable keeps to its type, whatever pods, users and failures do.
THEOREM TypeCorrect == Spec => []TypeOK
  BY InitType, StepType, PTL DEF Spec

\* The invariant holds in every reachable state.
THEOREM Invariant == Spec => []BootstrapInv
<1>1. BootstrapInv /\ [Next]_vars => BootstrapInv'
  BY StepType, StepCert, StepLease, StepAgreed, StepGoesOn DEF BootstrapInv
<1> QED BY <1>1, InitAgreed, PTL DEF Spec

\* Two pods that both believe they lead never make what is served and what is trusted
\* differ, however the lease moves and wherever they stop.
THEOREM ServedIsTrusted == Spec => []ServingAgrees
<1>1. BootstrapInv => ServingAgrees
  BY DEF BootstrapInv, Agreed, ServingAgrees
<1> QED BY <1>1, Invariant, PTL

\* Wherever the start-up stands, it is done, somebody is at work on it, or the lease is
\* free for any pod: restarts alone, or lost leases alone, never leave the pods waiting
\* for a leader that has given up.
THEOREM NeverStalls == Spec => []NoStall
<1>1. BootstrapInv => NoStall
  BY Zenon DEF BootstrapInv, StallInv, NoStall, Late, At
<1> QED BY <1>1, Invariant, PTL
=============================================================================
