------------------------------ MODULE MCAirgap ------------------------------
(* Instances of Airgap for TLC. *)
EXTENDS AirgapProperties
=============================================================================
