\* A prompt and a handoff, two concurrent requests, a map that holds one
\* entry (every second operation trims), one crash, one failing write and one
\* failing read, and room for a Session made elsewhere.
CONSTANTS
    prompt = prompt
    handoff = handoff
    text1 = text1
    text2 = text2
    move = move
    ses1 = ses1
    ses2 = ses2
    h1 = h1
    h2 = h2
    h3 = h3
    Ops = {prompt, handoff}
    Handoffs = {handoff}
    Requests = {text1, move}
    Identity <- MCIdentity
    NoRequest = NoRequest
    Sessions = {ses1, ses2}
    NoSession = NoSession
    Nobody = Nobody
    Elsewhere = Elsewhere
    Handlers = {h1, h2}
    NoHandler = NoHandler
    MaxOperations = 1
    MaxIssues = 2
    MaxCrashes = 1
    MaxWriteFailures = 1
    MaxReadFailures = 0
SPECIFICATION Spec
SYMMETRY MCSymmetry
\* Clients stop resending at MaxIssues.
CHECK_DEADLOCK FALSE
INVARIANTS
    AtMostOnce
    WorkIsRecorded
    AckIsOnDisk
    OneTargetPerHandoff
PROPERTIES
    KeepsPromise
