\* A Session that is continued on another harness, and once more, by a user
\* who tries again, with up to three failures, kills of the app, deaths of the
\* daemon, renames of the source, looks at the links or other new Sessions.
CONSTANTS
    here = here
    there = there
    Agents = {here, there}
    Quiet = {there}
    MaxHandoffs = 2
    MaxPrompts = 5
    MaxSaid = 1
    Budgets <- MCBudgets
SPECIFICATION FairSpec
CHECK_DEADLOCK FALSE
INVARIANTS
    OneTargetPerContinue
    TransferIsRecorded
PROPERTIES
    ContinueEnds
