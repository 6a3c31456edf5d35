--------------------------- MODULE MCWipeFollowUp ---------------------------
(* Instances of WipeFollowUp for TLC.                                      *)
EXTENDS WipeFollowUp
=============================================================================
