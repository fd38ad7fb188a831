SPECIFICATION DocumentSpec
CONSTANTS
    MaxNodes = 4
    MaxDepth = 2
    MaxItems = 2
    MaxMembers = 1
    MaxChars = 1
    MaxKeyChars = 1
    SourceBytes = 2
    MaxDigits = 1
    MaxExponent = 1
    Decimals = 2
    MaxRead = 5
    Names = {"a", "b", "c"}
    Unprintable = {"c"}
    Strings <- MCStrings
    Numbers <- MCNumbers
INVARIANTS
    DecoderIsBounded
    RejectionsAreDue
CHECK_DEADLOCK FALSE
