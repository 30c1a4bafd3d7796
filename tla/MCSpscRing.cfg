CONSTANTS
    Size = 3
    Packet = {p1, p2}
    None = None
SPECIFICATION FairSpec
INVARIANTS
    TypeOK
    SlotExclusive
    BulkInBounds
    IInv
PROPERTIES
    ImplementsFifo
    Delivered
