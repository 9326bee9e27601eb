SPECIFICATION FairSpec
CONSTANTS
    Old = {o, p}
    New = {n}
    Technical = {t}
    Budgets <- Scenes
INVARIANTS
    HiddenStaysHidden
    CreatedIsListed
CHECK_DEADLOCK FALSE
PROPERTIES
    RailFollows
