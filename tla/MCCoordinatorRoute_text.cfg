\* The hub as it is: jsonb columns come back as text.
CONSTANTS
    Members = {s1, s2}
    MaxCalls = 2
    MaxEvents = 3
    DetailsDecoded = FALSE
SPECIFICATION FairSpec
PROPERTY
    FindingOpensGap
CHECK_DEADLOCK FALSE
