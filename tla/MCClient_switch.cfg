SPECIFICATION Spec
CONSTANTS
    Hosts = {s1}
    Conns = {c1, c2}
    NoSocket = NoSocket
    NoHost = NoHost
    NoKey = NoKey
    TIMEOUT = 1
    MaxServers = 2
    Faults = {"down"}
PROPERTY SwitchReconnects
