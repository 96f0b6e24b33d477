SPECIFICATION Spec
CONSTANTS
    Handles = {h1, h2}
    INVALID_SOCKET = INVALID_SOCKET
    NoKey = NoKey
    MAX_CLIENTS = 1
    MAX_BUF_SIZE = 2
    TIMEOUT = 1
    Messages <- Various
    MaxPort = 3
    Faults = {"partial", "reset"}
    MaxAborted = 0
    StaleSlots = {1}
SYMMETRY HandlesAreAlike
INVARIANTS TypeOK WholeMessages BufferBounded AnswersNotGarbled SocketsOwned IoBelongs KeyAgreement
