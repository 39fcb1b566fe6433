-------------------------- MODULE MCNativeCampaign --------------------------
(* Small instances of NativeCampaign for TLC. *)
EXTENDS NativeCampaign

TwoTargets == {1, 2}
=============================================================================
