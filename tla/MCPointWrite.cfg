SPECIFICATION Spec
CONSTANTS
    Unit = 4
    ByteSize = 2
    Size32 = 8
    Size64 = 16
    Numbers <- EndsAndHalves
    Float32 <- SingleFloats
    Scales <- HalfOneTwo
    Orders <- ThreeOrders
    None = None
    Failed = Failed
    NotFinite = NotFinite
INVARIANTS
    TypeOK
    AcknowledgedNumberIsRead
    ScaledWithinOne
