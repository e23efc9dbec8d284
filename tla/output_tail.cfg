SPECIFICATION OutputSpec
CONSTANTS
    Sayings = {"a", "b"}
    Noise = {"n"}
    MaxPrinted = 4
    MaxBuffer = 1
CHECK_DEADLOCK FALSE
INVARIANT AllOutputIsRead
