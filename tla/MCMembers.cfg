\* Two members, one of whom may be kicked; two sockets at a time, reused; two
\* overlapping requests; a browser and two phones; two workers with three
\* observations of two incidents.
CONSTANTS
  Staff = {m1}
  Requests = {r1, r2}
  Browsers = {b1}
  MaxIds = 6
  MaxRuns = 2
  Phones = {p1, p2}
  People = {m1, m2}
  Rotations = {r1, r2}
  MaxTokens = 3
  Workers = {w1, w2}
  Sources = {m1, m2}
  Keys = {k1, k2}
  Severities = {0, 1}
  MaxObs = 3
  MaxActs = 1
  Members = {m1, m2}
  Sockets = {s1, s2}
  Kickable = {m1}
  NoMember = NoMember
  NoSocket = NoSocket
  MayRestart = TRUE
SPECIFICATION AllSpec
SYMMETRY MembersSymmetry
INVARIANTS EntriesAreServed ConnectedHasHandler
           RolesAgree SessionsEnd RotationLasts SessionLasts
           NewsReopens CorroborationTold
PROPERTIES KickIsSticky
CHECK_DEADLOCK FALSE
