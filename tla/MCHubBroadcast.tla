--------------------------- MODULE MCHubBroadcast ---------------------------
(* Instances of HubBroadcast for TLC.                                      *)
EXTENDS HubBroadcast, TLC

SocketSymmetry == Permutations(Sockets)
=============================================================================
