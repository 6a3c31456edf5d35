\* A wipe while members join and reconnect.
CONSTANTS
  Members = {m1, m2}
  Sockets = {s1, s2}
  Kickable = {}
  NoMember = NoMember
  NoSocket = NoSocket
  MayRestart = FALSE
SPECIFICATION BroadcastSpec
SYMMETRY SocketSymmetry
PROPERTY WipeReachesConnected
