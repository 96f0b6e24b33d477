SPECIFICATION Spec
CONSTANTS
    Handles = {h1, h2, h3}
    INVALID_SOCKET = INVALID_SOCKET
    NoKey = NoKey
    MAX_CLIENTS = 2
    MAX_BUF_SIZE = 2
    TIMEOUT = 1
    Messages <- Silent
    MaxPort = 3
    Faults = {"accept", "associate", "reset", "sockaddr"}
    MaxAborted = 0
    StaleSlots = {}
SYMMETRY HandlesAreAlike
INVARIANTS SlotIdentity SocketsOwned OneAccept
