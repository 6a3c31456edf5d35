CONSTANTS
    Members = {s1, s2}
    MaxCalls = 2
    MaxEvents = 4
    DetailsDecoded = TRUE
SPECIFICATION FairSpec
INVARIANTS
    EmittedHasBasis
    SerialBooks
PROPERTY
    GapIsAssigned
