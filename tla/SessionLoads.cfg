\* A read, a call that claims the Session or asks for its commands, and a
\* prompt, on each harness; loads, reads and writes may fail.
CONSTANTS
    Readers = {r1}
    Openers = {o1}
    Prompters = {p1}
    Refusals = TRUE
SPECIFICATION LoadsFairSpec
\* Every call was made, and settled.
CHECK_DEADLOCK FALSE
INVARIANTS
    WholeBetweenLoads
    SnapshotCatchesUp
PROPERTIES
    CallsSettle
