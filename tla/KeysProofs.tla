----------------------------- MODULE KeysProofs -----------------------------
(***************************************************************************)
(* The key pair is never replaced, what is published fits it, and nobody   *)
(* forgets to publish it, for any number of replicas, installations,       *)
(* faults and edits.                                                       *)
(***************************************************************************)
EXTENDS KeysProperties, TLAPS

USE DEF At, Restart, Started, Processes, Charts

\* Every variable keeps to its type, whatever replicas, failures and Helm do.
LEMMA InitInv == Init => KeysInv
  BY SMT DEF Init, KeysInv, NothingForgotten, KeysFit, TypeOK

\* The private key is not there, or there is no current copy without it: so a process
\* generates only for lack of one, and one process stores what it has generated.
LEMMA InitConfigurationStep ==
  ASSUME KeysInv, NEW p \in Replicas, InitConfiguration(p)
  PROVE  KeysInv'
<1>1. CASE GetConfig(p)
  BY <1>1, SMT DEF KeysInv, NothingForgotten, KeysFit, TypeOK, GetConfig, GenerateRSAKeyPairB64
<1>2. CASE UpdateConfig(p)
  BY <1>2, SMT DEF KeysInv, NothingForgotten, KeysFit, TypeOK, UpdateConfig
<1>3. CASE CreatePubkey(p)
  BY <1>3, SMT DEF KeysInv, NothingForgotten, KeysFit, TypeOK, CreatePubkey
<1> QED BY <1>1, <1>2, <1>3 DEF InitConfiguration

\* A process that is stopped leaves what it has written.
LEMMA FailureStep ==
  ASSUME KeysInv, NEW p \in Replicas, Crash(p) \/ LostAnswer(p)
  PROVE  KeysInv'
<1>1. CASE Crash(p)
  BY <1>1, SMT DEF KeysInv, NothingForgotten, KeysFit, TypeOK, Crash, Fault
<1>2. CASE LostAnswer(p)
  BY <1>2, SMT DEF KeysInv, NothingForgotten, KeysFit, TypeOK, LostAnswer, Fault
<1> QED BY <1>1, <1>2

LEMMA Step == KeysInv /\ [Next]_vars => KeysInv'
<1> SUFFICES ASSUME KeysInv, [Next]_vars PROVE KeysInv'
  OBVIOUS
<1>1. CASE EditConfig
  BY <1>1, SMT DEF KeysInv, NothingForgotten, KeysFit, TypeOK, EditConfig
<1>2. CASE Reinstall
  BY <1>2, SMT DEF KeysInv, NothingForgotten, KeysFit, TypeOK, Reinstall
<1>3. ASSUME NEW p \in Replicas, InitConfiguration(p)
      PROVE  KeysInv'
  BY <1>3, InitConfigurationStep
<1>4. ASSUME NEW p \in Replicas, Crash(p) \/ LostAnswer(p)
      PROVE  KeysInv'
  BY <1>4, FailureStep
<1>5. CASE UNCHANGED vars
  BY <1>5, SMT DEF KeysInv, NothingForgotten, KeysFit, TypeOK, vars
<1> QED BY <1>1, <1>2, <1>3, <1>4, <1>5 DEF Next

\* The invariant, and with it the type of every variable, holds in every reachable state.
THEOREM Invariant == Spec => []KeysInv
  BY InitInv, Step, PTL DEF Spec

\* Every variable keeps to its type, whatever replicas, failures and Helm do.
THEOREM TypeCorrect == Spec => []TypeOK
<1>1. KeysInv => TypeOK
  BY DEF KeysInv
<1> QED BY <1>1, Invariant, PTL

\* Whatever replicas do at the same time, and wherever they are stopped, the published
\* key fits the stored one as long as Kubean is installed once.
THEOREM PublishedFits == Spec => []KeysFit
<1>1. KeysInv => KeysFit
  BY DEF KeysInv
<1> QED BY <1>1, Invariant, PTL

\* Nobody works without a private key, and while none is stopped its publication is
\* always somebody's next call: what is left of "the key is published in the end" is
\* that processes go on.
THEOREM NobodyForgets == Spec => []NothingForgotten
<1>1. KeysInv => NothingForgotten
  BY DEF KeysInv
<1> QED BY <1>1, Invariant, PTL

\* A process stores a private key only through a current copy of kubean-config, and
\* there is none once a private key is stored.
LEMMA NeverReplacedStep ==
  ASSUME KeysInv, [Next]_vars
  PROVE  sk # 0 /\ bounds'.installs = bounds.installs => sk' = sk
<1>1. CASE EditConfig
  BY <1>1 DEF EditConfig
<1>2. CASE Reinstall
  BY <1>2, SMT DEF Reinstall, KeysInv, TypeOK
<1>3. ASSUME NEW p \in Replicas, InitConfiguration(p)
      PROVE  sk # 0 => sk' = sk
  BY <1>3, SMT DEF InitConfiguration, GetConfig, GenerateRSAKeyPairB64,
                   UpdateConfig, CreatePubkey, KeysInv
<1>4. ASSUME NEW p \in Replicas, Crash(p) \/ LostAnswer(p)
      PROVE  sk # 0 => sk' = sk
  BY <1>4, SMT DEF Crash, LostAnswer, KeysInv
<1>5. CASE UNCHANGED vars
  BY <1>5 DEF vars
<1> QED BY <1>1, <1>2, <1>3, <1>4, <1>5 DEF Next

\* No replica ever replaces a private key.
THEOREM NeverReplaced == Spec => KeyNeverReplaced
<1>1. KeysInv /\ [Next]_vars
        => [sk # 0 /\ bounds'.installs = bounds.installs => sk' = sk]_vars
  BY NeverReplacedStep
<1> QED BY <1>1, Invariant, PTL DEF Spec, KeyNeverReplaced
=============================================================================
