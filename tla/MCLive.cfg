\* Two notes and one failure; three members on a street of two spots, a clock a
\* second ahead; two members with buffers and two open dashboards.
CONSTANTS
  Sockets = {s1, s2}
  NoSocket = NoSocket
  NReports = 2
  MaxPending = 1
  MaxFaults = 1
  MayDiscard = {}
  Members = {m1, m2, m3}
  Places = {0, 2}
  Radius = 1
  Ttl = 2
  MinCluster = 2
  MaxSkew = 1
  MaxTime = 4
  Senders = {m1, m2}
  Streams = {s1, s2}
  MaxHeld = 2
  MinItems = 2
  WarnItems = 3
  CritItems = 4
  WarnMembers = 3
  CritMembers = 4
  Sustained = 2
  MaxSignals = 2
SPECIFICATION AllSpec
INVARIANTS RecentIsKept QuietWasChosen
PROPERTIES InFlightIsSettled DeliversUnlessMissed NeighboursAreSeen SnoozeEnds
CHECK_DEADLOCK FALSE
