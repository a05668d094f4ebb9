CONSTANTS
    NBuckets = 1
    BucketsPerDir = 1
    Slots = 2
    NFrames = 4
    Keys <- MCKeysDup
    Script <- MCScriptDup
SPECIFICATION Spec
PROPERTY MapSemantics
CHECK_DEADLOCK FALSE
