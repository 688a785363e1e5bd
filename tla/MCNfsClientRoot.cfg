SPECIFICATION ClientSpec
CONSTANTS
    Fds = {3}
    Ports <- MCPorts
    PortMapperPort = 1
    Listening <- MCListening
    Requests <- MCRequests
    Statuses = {"SUCCESS", "FAILED", "UNKNOWN", "VERIFIED"}
    Values <- MCValues
    Faults = {}
    FalseSizes = {}
    MaxSent = 6
    Ops <- MCOps
    Seeds <- MCSeeds
    XidModulus = 18
    MaxCalls = 9
    Script <- MainScript
    MountService = 2
    NfsService = 3
    Handles = {h1, h2}
    Denied = denied
    Void = void
    Export = "/default"
    ServerFaults = {}
INVARIANTS RootIsFound
