CONSTANTS
    NBuckets = 1
    BucketsPerDir = 1
    Slots = 1
    NFrames = 3
    Keys <- MCKeys
    Script <- MCScriptAny
SPECIFICATION Spec
INVARIANT FreeListSound CleanFramesMatchDisk LookupConsistent
PROPERTY MapSemantics
CHECK_DEADLOCK FALSE
