SPECIFICATION ClientSpec
CONSTANTS
    Fds = {0, 3}
    Ports <- MCPorts
    PortMapperPort = 1
    Listening <- MCListening
    Requests <- MCRequests
    Statuses = {"SUCCESS", "FAILED", "UNKNOWN", "VERIFIED"}
    Values <- MCValues
    Faults = {"refuse", "interrupt"}
    FalseSizes = {0, 2}
    MaxSent = 6
    Ops <- MCOps
    Seeds <- MCSeeds
    XidModulus = 12
    MaxCalls = 6
    Script <- RemountScript
    MountService = 2
    NfsService = 3
    Handles = {h1, h2}
    Denied = denied
    Void = void
    Export = "/default"
    ServerFaults = {"deny", "unknown", "verify"}
SYMMETRY HandleSymmetry
PROPERTIES HandleIsGranted RequestGoesToItsService 
