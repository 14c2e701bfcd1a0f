SPECIFICATION Spec
CONSTANTS
    Narrow = 8
    Wide = 32
    Kind <- MCKind
    Form <- MCForm
    UnsignedColumn <- MCUnsignedColumn
    Capacity = 6
    BufferSize = {2, 3, 16}
    MaxUDPPacket = 109
    ByteCount = 2
    None = None
    MaxRows = 2
    MaxChanges = 1
    MaxSelects = 1
INVARIANTS
    Delivered
    ReadBack
CHECK_DEADLOCK FALSE
