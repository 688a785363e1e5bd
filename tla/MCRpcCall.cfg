SPECIFICATION RpcSpec
CONSTANTS
    Fds = {3}
    Ports <- OnePort
    PortMapperPort = 1
    Listening <- OnePort
    Requests <- MCRequests
    Statuses = {"SUCCESS", "FAILED", "UNKNOWN", "VERIFIED"}
    Values = {v1, v2}
    Faults = {"interrupt", "close", "reset"}
    FalseSizes = {0, 3}
    MaxSent = 2
    Ops = {op1, op2}
    Seeds <- MCSeeds
    XidModulus = 4
    MaxCalls = 2
SYMMETRY CallSymmetry
INVARIANTS WholeReply AnswerIsMine OnlyKnownRequests
PROPERTIES StaysInStep CallIsAbstract
