SPECIFICATION OneTalksSpec
CONSTANTS
    Handles = {1, 2, 3}
    INVALID_SOCKET = INVALID_SOCKET
    NoKey = NoKey
    MAX_CLIENTS = 2
    MAX_BUF_SIZE = 2
    TIMEOUT = 1
    Messages <- Talk
    MaxPort = 1
    Faults = {}
    MaxAborted = 0
    StaleSlots = {}
PROPERTY SilentReclaimed
