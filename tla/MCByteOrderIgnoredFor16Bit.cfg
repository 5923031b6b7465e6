SPECIFICATION Spec
CONSTANT
    Byte = {0, 1}
INVARIANTS
    ByteOrderIgnoredFor16Bit
