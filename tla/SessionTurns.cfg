\* Two prompts on the session's model and one that names its own, with one abort
\* and one slash command on the side, eviction, read of the journal or forced load.
CONSTANTS
    Prompts = {p1, p2, m1}
    HasModel = {m1}
    MaxAborts = 1
    MaxAsides = 1
SPECIFICATION FairSpec
\* Every prompt was sent, and settled.
CHECK_DEADLOCK FALSE
INVARIANTS
    WaitingIsVisible
    QueueHasARunner
    SerialOnOneModel
PROPERTIES
    StaleTurnsAreInert
    PromptsSettle
