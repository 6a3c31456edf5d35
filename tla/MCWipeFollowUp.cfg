\* One member and an activity of its own against the coordinator's requests, in
\* a trail that outgrows the window and whose rows come back as text.
CONSTANTS
    Members = {m1}
    Handlers = {h1}
    Window = 3
    DetailsDecoded = FALSE
    MaxTime = 8
    MaxRestarts = 1
SPECIFICATION Spec
INVARIANTS
    ReopenedOnce
    ReopenTold
CHECK_DEADLOCK FALSE
