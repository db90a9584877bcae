SPECIFICATION SumSpec
CONSTANTS
    Byte = 4
    Word = 16
    Acc = 256
INVARIANTS ChangeNoticed SumsLikeOnesComplement
CHECK_DEADLOCK FALSE
