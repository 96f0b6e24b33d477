SPECIFICATION Spec
CONSTANTS
    Handles = {h1, h2}
    INVALID_SOCKET = INVALID_SOCKET
    NoKey = NoKey
    MAX_CLIENTS = 1
    MAX_BUF_SIZE = 2
    TIMEOUT = 1
    Messages <- WithLong
    MaxPort = 3
    Faults = {}
    MaxAborted = 0
    StaleSlots = {}
INVARIANT NeverGarbled
