SPECIFICATION LiveSpec
CONSTANTS
    Fds = {0, 3}
    Ports <- TwoPorts
    PortMapperPort = 1
    Listening <- TwoPorts
    Requests = {q}
    Statuses = {"SUCCESS"}
    Values = {v1}
    Faults = {"resolve", "socket", "refuse", "interrupt", "close", "reset"}
    FalseSizes = {0, 1}
    MaxSent = 1
INVARIANTS TypeOK OneSocket TalksToPort StatusTruthful StreamCounted
PROPERTIES ReceiveEnds
