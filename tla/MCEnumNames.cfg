\* The program's enumerations and every list of up to three enumerators; a
\* size_t is larger than any of their values, and two values are printed.
CONSTANTS
    Lists <- AllLists
    Enumerators <- AllEnumerators
    SizeModulus = 1048576
    Asked <- SomeValues
    MaxPrints = 2
SPECIFICATION Spec
INVARIANT NamesAreTheCompilers
CHECK_DEADLOCK FALSE
