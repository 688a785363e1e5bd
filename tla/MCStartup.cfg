SPECIFICATION Spec
CONSTANTS
    Comma = ","
    Letters <- MCLetters
    DigitOf <- MCDigitOf
    Commands <- MCCommands
    MaxText = 4
    MaxOptions = 2
INVARIANTS ContextsAreServers UsageIsBalanced
CHECK_DEADLOCK FALSE
