CONSTANTS
    NBuckets = 1
    BucketsPerDir = 1
    Slots = 2
    NFrames = 4
    Keys <- MCKeys
    Script <- MCScriptAny
SPECIFICATION Spec
INVARIANT TypeOK FreeListSound CleanFramesMatchDisk LookupConsistent SlotPinned Durable
PROPERTY MapSemantics
CHECK_DEADLOCK FALSE
