CONSTANTS
    NBuckets = 1
    BucketsPerDir = 1
    Slots = 2
    NFrames = 4
    Keys <- MCKeys
    Script <- MCScriptAny
SPECIFICATION Spec
INVARIANT NoPinLeak
CHECK_DEADLOCK FALSE
