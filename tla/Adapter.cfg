\* A claim, a Stop and a call that creates a Session: up to three adapters
\* one after the other.
CONSTANTS
    Claims = {c1}
    Stops = {s1}
    Creates = {n1}
SPECIFICATION FairSpec
\* Every call was made, and settled.
CHECK_DEADLOCK FALSE
INVARIANTS
    PendingIsWithTheChild
    ReadyChildIsKnown
PROPERTIES
    CallsSettle
