SPECIFICATION Spec
CONSTANTS
    Characters <- MCCharacters
    Slash = "/"
    Dot = "."
    Names <- MCNames
    Export <- MCExport
    MaxName = 4
    MaxInodes = 2
INVARIANTS StripsSlashes NamesStayInside
CHECK_DEADLOCK FALSE
