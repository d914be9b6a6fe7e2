CONSTANTS
    Chars = {"a", "b", "/"}
    MaxLen = 2
SPECIFICATION HSpec
INVARIANT UnderHomeBySegment
