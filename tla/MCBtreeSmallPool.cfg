CONSTANTS
    Order = 2
    NFrames = 6
    Keys <- MCKeys
    Script <- MCScript
SPECIFICATION Spec
PROPERTY IndexSemantics
\* The client stops after its last call and ~Btree.
CHECK_DEADLOCK FALSE
