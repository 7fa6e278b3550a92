SPECIFICATION TextSpec
CONSTANTS
    Name = {"a", "b"}
    Class = {"Metro"}
    Value = {"1"}
    Line <- MCLine
    MaxText = 10
INVARIANTS
    CallsAsWritten
    ErrorsPrinted
CHECK_DEADLOCK FALSE
