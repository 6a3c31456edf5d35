---------------------------- MODULE MCHubMembers ----------------------------
(* Instances of HubMembers for TLC.                                        *)
EXTENDS HubMembers, TLC

\* The sockets are alike; the members are not (Kickable).
SocketSymmetry == Permutations(Sockets)
=============================================================================
