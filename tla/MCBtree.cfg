CONSTANTS
    Order = 2
    NFrames = 7
    Keys <- MCKeys
    Script <- MCScript
SPECIFICATION Spec
INVARIANTS TypeOK TreeShape KeyOrder LeafChain FramesInUseHeld Durable
PROPERTIES IndexSemantics
\* The client stops after its last call and ~Btree.
CHECK_DEADLOCK FALSE
