\* Three starts by a careful operator; installs with two passphrases; a feed of
\* four rows, cut to one, with a write between its statements.
CONSTANTS
  Phrases = {"one", "other"}
  MaxPairs = 2
  Findings = {f1, f2}
  Events = {e1}
  Sitreps = {r1}
  Categories = {"a"}
  Limits = {1}
  MaxLag = 1
  MaxTime = 2
  MaxWrites = 1
  Hubs = {p1, p2, p3}
  NoHub = NoHub
  Stoppers = {t1}
  Overlap = FALSE
  MayCrash = TRUE
SPECIFICATION AllSpec
SYMMETRY HubSymmetry
INVARIANTS AtMostOneActive Stoppable SealedAtRest FeedShowsNewest
PROPERTIES ObeysOwnRequest EndsOnlyForCause ReadyStarts
CHECK_DEADLOCK FALSE
