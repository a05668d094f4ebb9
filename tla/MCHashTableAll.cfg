CONSTANTS
    NBuckets = 1
    BucketsPerDir = 1
    Slots = 1
    NFrames = 2
    Keys <- MCKeys
    Script <- MCScriptAny
SPECIFICATION Spec
INVARIANT TypeOK FreeListSound CleanFramesMatchDisk LookupConsistent SlotPinned Durable
PROPERTY MapSemantics
CHECK_DEADLOCK FALSE
