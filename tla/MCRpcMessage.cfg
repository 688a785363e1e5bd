\* Every request and every reply to it.
CONSTANTS
    Base = 32
    Xids = {1, 1048575}
    Stamps = {2, 32768}
    Machines <- MCMachines
    Paths <- MCPaths
    Ports = {0, 111, 2049}
    Granted <- MCGranted
    AuthLists <- MCAuthLists
    Verifiers <- MCVerifiers
SPECIFICATION Spec
INVARIANTS RequestIsHeard PayloadIsResults ResultIsMeant
CHECK_DEADLOCK FALSE
