SPECIFICATION Spec
CONSTANTS
    Hosts = {s1}
    Conns = {c1, c2, c3}
    NoSocket = NoSocket
    NoHost = NoHost
    NoKey = NoKey
    TIMEOUT = 1
    MaxServers = 2
    Faults = {"full", "down", "split"}
SYMMETRY ConnsAreAlike
INVARIANTS TypeOK ConnectorsDistinct KeyInUse
PROPERTY NoEarlyTimeout
