SPECIFICATION FairSessionSpec
CONSTANTS
    Handles = {h1, h2}
    INVALID_SOCKET = INVALID_SOCKET
    NoKey = NoKey
    Backlog = Backlog
    MAX_CLIENTS = 1
    MAX_BUF_SIZE = 2
    TIMEOUT = 1
    Messages <- KeyThenRequest
    MaxPort = 2
    Faults = {"reset"}
    MaxAborted = 0
    StaleSlots = {}
INVARIANTS SessionTypeOK SameKey TimeoutsAgree
PROPERTIES ImplementsCall CommandEnds
