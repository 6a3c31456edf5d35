\* Three connections of a member who may be kicked, with crashes: beside a quiet
\* one an older and a newer.
CONSTANTS
  Members = {m1}
  Sockets = {s1, s2, s3}
  Kickable = {m1}
  NoMember = NoMember
  NoSocket = NoSocket
  MayRestart = TRUE
SPECIFICATION FairSpec
PROPERTIES QuietIsDropped
