CONSTANTS
    ItemCount = 2
    Owner = o
    Readers = {r1}
SPECIFICATION Spec
INVARIANTS TypeOK Conserved PushSlotFree
PROPERTIES Reclaims OpsComplete
