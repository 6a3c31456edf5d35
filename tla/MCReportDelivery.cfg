\* Two notes, two failures, discards.
CONSTANTS
  Sockets = {s1, s2}
  NoSocket = NoSocket
  NReports = 2
  MaxPending = 2
  MaxFaults = 2
  MayDiscard = {2}
SPECIFICATION Spec
SYMMETRY SocketSymmetry
PROPERTIES IsReportLog
CHECK_DEADLOCK FALSE
