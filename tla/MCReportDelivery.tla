-------------------------- MODULE MCReportDelivery --------------------------
(* Instances of ReportDelivery for TLC.                                    *)
EXTENDS ReportDelivery, TLC

SocketSymmetry == Permutations(Sockets)
=============================================================================
