\* Broadcasts under joins, reconnects and heartbeat timeouts; two exports of a
\* file of evidence beside the hubs that open its volume and a wipe.
CONSTANTS
  Files = {f1}
  Pids = {p1, p2}
  NoPid = NoPid
  MaxExports = 2
  Members = {m1, m2}
  Sockets = {s1, s2}
  Kickable = {}
  NoMember = NoMember
  NoSocket = NoSocket
  MayRestart = FALSE
SPECIFICATION WipeSpec
SYMMETRY WipeSymmetry
INVARIANTS QuietExportVerifies
PROPERTIES DoneReachesEveryEntry WipeDestroysLast
CHECK_DEADLOCK FALSE
