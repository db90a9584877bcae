SPECIFICATION MarkSpec
CONSTANTS
    TableWords = 3
    Calls <- MCCalls
INVARIANTS InTable MarksTheRange
