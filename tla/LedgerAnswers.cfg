\* One clientRequestId used for two bodies by three concurrent requests, one
\* crash, one failing write and one failing read, under fairness.
CONSTANTS
    prompt = prompt
    handoff = handoff
    text1 = text1
    text2 = text2
    move = move
    ses1 = ses1
    ses2 = ses2
    h1 = h1
    h2 = h2
    h3 = h3
    Ops = {prompt}
    Handoffs = {}
    Requests = {text1, text2}
    Identity <- MCIdentity
    NoRequest = NoRequest
    Sessions = {}
    NoSession = NoSession
    Nobody = Nobody
    Elsewhere = Elsewhere
    Handlers = {h1, h2, h3}
    NoHandler = NoHandler
    MaxOperations = 1
    MaxIssues = 2
    MaxCrashes = 1
    MaxWriteFailures = 1
    MaxReadFailures = 1
SPECIFICATION FairSpec
\* Clients stop resending at MaxIssues.
CHECK_DEADLOCK FALSE
INVARIANTS
    AckedWorkWasTaken
PROPERTIES
    RequestsAnswered
