\* A Task that is launched, continued and continued again, or stopped and
\* released, beside the poll that reconciles it, with restarts of the daemon
\* and failing writes of the task file, and fairness.
CONSTANTS
    first = first
    rival = rival
    next = next
    again = again
    request = request
    stop = stop
    poll = poll
    cleanup = cleanup
    Launches = {first, rival, next, again}
    Continues = {next, again}
    RequestId <- MCRequestId
    NoRequestId = NoRequestId
    NoRun = NoRun
    Stops = {stop}
    Polls = {poll}
    Cleanups = {cleanup}
    Boot = Boot
    NoText = NoText
    Scenes <- MCScenes
SPECIFICATION FairSpec
CHECK_DEADLOCK FALSE
INVARIANTS
    OnePromptPerRequest
    FileCatchesUp
PROPERTIES
    SupersededRunsAreInert
    TaskSettles
