--------------------------- MODULE MCHubLifecycle ---------------------------
(* Instances of HubLifecycle for TLC.                                      *)
EXTENDS HubLifecycle, TLC

HubSymmetry == Permutations(Hubs)
=============================================================================
