\* A kick while a join of the same member is under way.
CONSTANTS
  Members = {m1}
  Sockets = {s1, s2}
  Kickable = {m1}
  NoMember = NoMember
  NoSocket = NoSocket
  MayRestart = FALSE
SPECIFICATION Spec
INVARIANT KickedIsNotServed
