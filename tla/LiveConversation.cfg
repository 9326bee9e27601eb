\* A reply and a change of the Session's state, with and
\* without the poll.
CONSTANTS
    MaxSaid = 1
    MaxStatus = 1
    MaxLinks = 2
SPECIFICATION LiveFairSpec
CHECK_DEADLOCK FALSE
PROPERTIES
    HeardIsShown
    PollCatchesUp
