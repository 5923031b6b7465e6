--------------------------- MODULE ByteOrderProofs ---------------------------
(***************************************************************************)
(* Proofs about ByteOrder for every set of byte values: the exhaustive     *)
(* check over two values, for all 256 of them.                             *)
(***************************************************************************)
EXTENDS ByteOrder, TLAPS

Decode32(r, order) == getUint32WithOrder(putBytesWithOrder(r, order), order)
Decode64(r, order) ==
    LET b == putFloat64BytesWithOrder(r, order)
    IN  IF order = "little" THEN Reversed8(b) ELSE b

(* What both copies of the decoding, that of the poll and that of the      *)
(* single read, are to do with registers in a given order.                 *)
Decode(r, order) ==
    CASE dataType \in Types16 -> r[1]
      [] dataType \in Types32 -> Decode32(r, order)
      [] dataType \in Types64 -> Decode64(r, order)
      [] dataType = "bool"    -> <<IF r[1] = <<0, 0>> THEN 0 ELSE 1>>
      [] dataType = "string"  -> Text(Flat2(r[1], r[2]))

LEMMA PollDecodes ==
  ASSUME dataType \in DataTypes, NEW r, NEW o
  PROVE  Parsed(r, o) = Decode(r, o)
  BY DEF Parsed, ParsedFloat64, Decode, Decode32, Decode64, DataTypes, Numeric,
         Types16, Types32, Types64

LEMMA ReadDecodes ==
  ASSUME dataType \in DataTypes, NEW r
  PROVE  ReadResult(r) = Decode(r, byteOrder)
  BY DEF ReadResult, readInt16, readInt32, readFloat64, readBool, readString,
         Decode, Decode32, Decode64, DataTypes, Numeric,
         Types16, Types32, Types64

(* A 32-bit value that is encoded in a configured order is decoded to      *)
(* itself; without an order it is encoded as big.                          *)
LEMMA Written32 ==
  ASSUME NEW v \in Byte \X Byte \X Byte \X Byte
  PROVE  /\ \A o \in Configured : Decode32(int32ToRegisters(v, o), o) = v
         /\ Decode32(int32ToRegisters(v, ""), "big") = v
  BY DEF Decode32, int32ToRegisters, getUint32WithOrder, putBytesWithOrder,
         Configured, Swapped, Reg, Flat2

(* The same of a 64-bit value.                                             *)
LEMMA Written64 ==
  ASSUME NEW v \in Byte \X Byte \X Byte \X Byte \X Byte \X Byte \X Byte \X Byte
  PROVE  /\ \A o \in Configured : Decode64(float64ToRegisters(v, o), o) = v
         /\ Decode64(float64ToRegisters(v, ""), "big") = v
  <1>1. /\ v = <<v[1], v[2], v[3], v[4], v[5], v[6], v[7], v[8]>>
        /\ Reg(v, 1) = <<v[1], v[2]>> /\ Reg(v, 2) = <<v[3], v[4]>>
        /\ Reg(v, 3) = <<v[5], v[6]>> /\ Reg(v, 4) = <<v[7], v[8]>>
    BY DEF Reg
  <1>2. Decode64(float64ToRegisters(v, "little"), "little") = v
    BY <1>1 DEF Decode64, float64ToRegisters, Reversed8,
                putFloat64BytesWithOrder, Swapped, Flat4
  <1>3. Decode64(float64ToRegisters(v, "swap"), "swap") = v
    BY <1>1 DEF Decode64, float64ToRegisters, Reversed8,
                putFloat64BytesWithOrder, Swapped, Flat4
  <1>4. Decode64(float64ToRegisters(v, "middle"), "middle") = v
    BY <1>1 DEF Decode64, float64ToRegisters, Reversed8,
                putFloat64BytesWithOrder, Swapped, Flat4
  <1>5. Decode64(float64ToRegisters(v, "big"), "big") = v
    BY <1>1 DEF Decode64, float64ToRegisters, Reversed8,
                putFloat64BytesWithOrder, Swapped, Flat4
  <1>6. Decode64(float64ToRegisters(v, ""), "big") = v
    BY <1>1 DEF Decode64, float64ToRegisters, Reversed8,
                putFloat64BytesWithOrder, Swapped, Flat4
  <1> QED
    BY <1>2, <1>3, <1>4, <1>5, <1>6 DEF Configured

(* What a device stores in the documented layout is what the service would *)
(* have written: DeviceLayout and the ...ToRegisters functions agree.      *)
LEMMA DeviceAgrees32 ==
  ASSUME NEW v \in Byte \X Byte \X Byte \X Byte,
         byteOrder \in ByteOrders, dataType \in Types32
  PROVE  DeviceLayout(v) = int32ToRegisters(v, byteOrder)
  <1>1. DeviceLayout(v) = <<Arranged(v, Layout32[DeviceOrder], 1),
                        Arranged(v, Layout32[DeviceOrder], 2)>>
    BY DEF DeviceLayout, Types32, Types64
  <1>2. CASE byteOrder = "little"
    <2>1. DeviceOrder = "little"
      BY <1>2 DEF DeviceOrder, ByteOrders, Configured
    <2> QED
      BY <1>1, <1>2, <2>1 DEF Arranged, Layout32, int32ToRegisters, Swapped, Reg
  <1>3. CASE byteOrder = "swap"
    <2>1. DeviceOrder = "swap"
      BY <1>3 DEF DeviceOrder, ByteOrders, Configured
    <2> QED
      BY <1>1, <1>3, <2>1 DEF Arranged, Layout32, int32ToRegisters, Swapped, Reg
  <1>4. CASE byteOrder = "middle"
    <2>1. DeviceOrder = "middle"
      BY <1>4 DEF DeviceOrder, ByteOrders, Configured
    <2> QED
      BY <1>1, <1>4, <2>1 DEF Arranged, Layout32, int32ToRegisters, Swapped, Reg
  <1>5. CASE byteOrder \notin {"little", "swap", "middle"}
    <2>1. DeviceOrder = "big"
      BY <1>5 DEF DeviceOrder, ByteOrders, Configured
    <2> QED
      BY <1>1, <1>5, <2>1 DEF Arranged, Layout32, int32ToRegisters, Swapped, Reg
  <1> QED
    BY <1>2, <1>3, <1>4, <1>5

LEMMA DeviceAgrees64 ==
  ASSUME NEW v \in Byte \X Byte \X Byte \X Byte \X Byte \X Byte \X Byte \X Byte,
         byteOrder \in ByteOrders, dataType \in Types64
  PROVE  DeviceLayout(v) = float64ToRegisters(v, byteOrder)
  <1>1. DeviceLayout(v) = <<Arranged(v, Layout64[DeviceOrder], 1),
                        Arranged(v, Layout64[DeviceOrder], 2),
                        Arranged(v, Layout64[DeviceOrder], 3),
                        Arranged(v, Layout64[DeviceOrder], 4)>>
    BY DEF DeviceLayout, Types32, Types64
  <1>2. CASE byteOrder = "little"
    <2>1. DeviceOrder = "little"
      BY <1>2 DEF DeviceOrder, ByteOrders, Configured
    <2> QED
      BY <1>1, <1>2, <2>1 DEF Arranged, Layout64, float64ToRegisters, Swapped, Reg
  <1>3. CASE byteOrder = "swap"
    <2>1. DeviceOrder = "swap"
      BY <1>3 DEF DeviceOrder, ByteOrders, Configured
    <2> QED
      BY <1>1, <1>3, <2>1 DEF Arranged, Layout64, float64ToRegisters, Swapped, Reg
  <1>4. CASE byteOrder = "middle"
    <2>1. DeviceOrder = "middle"
      BY <1>4 DEF DeviceOrder, ByteOrders, Configured
    <2> QED
      BY <1>1, <1>4, <2>1 DEF Arranged, Layout64, float64ToRegisters, Swapped, Reg
  <1>5. CASE byteOrder \notin {"little", "swap", "middle"}
    <2>1. DeviceOrder = "big"
      BY <1>5 DEF DeviceOrder, ByteOrders, Configured
    <2> QED
      BY <1>1, <1>5, <2>1 DEF Arranged, Layout64, float64ToRegisters, Swapped, Reg
  <1> QED
    BY <1>2, <1>3, <1>4, <1>5

-----------------------------------------------------------------------------
(* The registers hold the encoding of the stored value, and a result is    *)
(* the decoding of the registers.                                          *)
IInv ==
    /\ byteOrder \in ByteOrders
    /\ dataType \in DataTypes
    /\ stored \in Values(dataType)
    /\ dataType \in Types32 => registers = int32ToRegisters(stored, byteOrder)
    /\ dataType \in Types64 => registers = float64ToRegisters(stored, byteOrder)
    /\ dataType \in Types16 /\ writer = "device" => registers[1] = stored
    /\ polled.read => polled.bits = Decode(registers, deviceByteOrder)
    /\ single.read => single.bits = Decode(registers, byteOrder)

LEMMA InitInv == Init => IInv
  <1> SUFFICES ASSUME Init PROVE IInv
    OBVIOUS
  <1>1. dataType \in Types32 => registers = int32ToRegisters(stored, byteOrder)
    BY DeviceAgrees32 DEF Init, Values, Types32, Types64
  <1>2. dataType \in Types64 => registers = float64ToRegisters(stored, byteOrder)
    BY DeviceAgrees64 DEF Init, Values, Types64, Types32
  <1>3. dataType \in Types16 => registers[1] = stored
    BY DEF Init, DeviceLayout, Types16, Types32, Types64
  <1> QED
    BY <1>1, <1>2, <1>3 DEF Init, IInv, NotRead

LEMMA InvStep == IInv /\ [Next]_vars => IInv'
  <1> SUFFICES ASSUME IInv, [Next]_vars PROVE IInv'
    OBVIOUS
  <1>1. ASSUME NEW v \in Values(dataType), DeviceStores(v)
        PROVE  IInv'
    <2>1. dataType \in Types32 => DeviceLayout(v) = int32ToRegisters(v, byteOrder)
      BY DeviceAgrees32 DEF IInv, Values, Types32, Types64
    <2>2. dataType \in Types64 => DeviceLayout(v) = float64ToRegisters(v, byteOrder)
      BY DeviceAgrees64 DEF IInv, Values, Types64, Types32
    <2>3. dataType \in Types16 => DeviceLayout(v)[1] = v
      BY DEF DeviceLayout, Types16, Types32, Types64
    <2> QED
      BY <1>1, <2>1, <2>2, <2>3 DEF DeviceStores, IInv, NotRead
  <1>2. ASSUME NEW v \in Values(dataType), writeHoldingRegister(v)
        PROVE  IInv'
    BY <1>2 DEF writeHoldingRegister, IInv, NotRead, Types16, Types32, Types64
  <1>3. CASE parseRegistersForPoint
    BY <1>3, PollDecodes DEF parseRegistersForPoint, IInv, Decode, deviceByteOrder
  <1>4. CASE collectSinglePoint
    BY <1>4, ReadDecodes DEF collectSinglePoint, IInv, Decode, deviceByteOrder
  <1>5. CASE UNCHANGED vars
    BY <1>5 DEF vars, IInv, Decode, deviceByteOrder
  <1> QED
    BY <1>1, <1>2, <1>3, <1>4, <1>5 DEF Next

LEMMA Invariance == Spec => []IInv
  BY InitInv, InvStep, PTL DEF Spec

(* What was stored is what is read, by poll and by single read, for every  *)
(* configured order and any bytes.                                         *)
THEOREM ValuesAreReadBack == Spec => []ReadBack
  <1>1. IInv => ReadBack
    <2> SUFFICES ASSUME IInv PROVE ReadBack
      OBVIOUS
    <2>1. CASE dataType \in Types32
      <3>1. /\ \A o \in Configured :
                  Decode32(int32ToRegisters(stored, o), o) = stored
            /\ Decode32(int32ToRegisters(stored, ""), "big") = stored
        BY <2>1, Written32 DEF IInv, Values, Types32, Types64
      <3>2. \A r, o : Decode(r, o) = Decode32(r, o)
        BY <2>1 DEF Decode, Decode32, Types16, Types32, Types64
      <3> QED
        BY <2>1, <3>1, <3>2
           DEF IInv, ReadBack, deviceByteOrder, ByteOrders, Configured
    <2>2. CASE dataType \in Types64
      <3>1. /\ \A o \in Configured :
                  Decode64(float64ToRegisters(stored, o), o) = stored
            /\ Decode64(float64ToRegisters(stored, ""), "big") = stored
        BY <2>2, Written64 DEF IInv, Values, Types32, Types64
      <3>2. \A r, o : Decode(r, o) = Decode64(r, o)
        BY <2>2 DEF Decode, Decode64, Types16, Types32, Types64
      <3> QED
        BY <2>2, <3>1, <3>2
           DEF IInv, ReadBack, deviceByteOrder, ByteOrders, Configured
    <2>3. CASE dataType \in Types16 /\ writer = "device"
      BY <2>3 DEF IInv, ReadBack, Decode, Types16, Types32, Types64
    <2> QED
      BY <2>1, <2>2, <2>3 DEF ReadBack
  <1> QED
    BY <1>1, Invariance, PTL

(* The two copies of the decoding agree, whatever the registers, the type  *)
(* and the order, unless the order is missing from the configuration; a    *)
(* single read of more than 16 bits is then zero, whatever was stored, and *)
(* with a misspelt order both reads are.                                   *)
THEOREM TheTwoReadsAgree == Spec => []PollAndReadAgree
  <1>1. ASSUME IInv, single.read, byteOrder \notin Configured,
               dataType \in Types32 \cup Types64
        PROVE  single.bits = Zero
    <2>1. CASE dataType \in Types32
      <3>1. single.bits = <<0, 0, 0, 0>>
        BY <1>1, <2>1 DEF IInv, Decode, Decode32, getUint32WithOrder,
           putBytesWithOrder, Types16, Types32, Types64, Configured
      <3> QED
        BY <2>1, <3>1 DEF Zero, Types32, Types64
    <2>2. CASE dataType \in Types64
      <3>1. single.bits = <<0, 0, 0, 0, 0, 0, 0, 0>>
        BY <1>1, <2>2 DEF IInv, Decode, Decode64, putFloat64BytesWithOrder,
           Types16, Types32, Types64, Configured
      <3> QED
        BY <2>2, <3>1 DEF Zero
    <2> QED
      BY <1>1, <2>1, <2>2
  <1>2. ASSUME IInv, single.read, polled.read, byteOrder # ""
        PROVE  polled.bits = single.bits
    BY <1>2 DEF IInv, deviceByteOrder
  <1>3. ASSUME IInv, single.read, polled.read,
               dataType \notin Types32 \cup Types64
        PROVE  polled.bits = single.bits
    <2>1. \A o, p : Decode(registers, o) = Decode(registers, p)
      BY <1>3 DEF IInv, DataTypes, Numeric, Decode, Types16, Types32, Types64
    <2> QED
      BY <1>3, <2>1 DEF IInv
  <1>4. IInv => PollAndReadAgree
    BY <1>1, <1>2, <1>3 DEF PollAndReadAgree
  <1> QED
    BY <1>4, Invariance, PTL

(* The bytes the service writes for a 32-bit value lie where the table of  *)
(* docs/byte_order.md says.                                                *)
THEOREM DocumentedLayoutIsWritten == Spec => []WritesDocumentedLayout
  <1>1. IInv => WritesDocumentedLayout
    BY DEF IInv, WritesDocumentedLayout, Layout32, int32ToRegisters, Flat2,
           Swapped, Reg, Configured, Values
  <1> QED
    BY <1>1, Invariance, PTL

-----------------------------------------------------------------------------
(* The types.  An encoding fills the registers of its type, whatever the   *)
(* order, and a decoding gives a value of the type.                        *)
Bytes4 == Byte \X Byte \X Byte \X Byte
Bytes8 == Byte \X Byte \X Byte \X Byte \X Byte \X Byte \X Byte \X Byte
Registers2 == Register \X Register
Registers4 == Register \X Register \X Register \X Register

LEMMA EncodedType ==
  ASSUME NEW o
  PROVE  /\ \A v \in Register : int16ToRegisters(v, o) \in {<<r>> : r \in Register}
         /\ \A v \in Bytes4 : int32ToRegisters(v, o) \in Registers2
         /\ \A v \in Bytes8 : float64ToRegisters(v, o) \in Registers4
  <1>1. ASSUME NEW v \in Register
        PROVE  int16ToRegisters(v, o) \in {<<r>> : r \in Register}
    <2>1. Swapped(v) \in Register
      BY DEF Swapped, Register
    <2> QED
      BY <2>1 DEF int16ToRegisters
  <1>2. ASSUME NEW v \in Bytes4 PROVE int32ToRegisters(v, o) \in Registers2
    BY DEF Bytes4, Registers2, Register, int32ToRegisters, Swapped, Reg
  <1>3. ASSUME NEW v \in Bytes8 PROVE float64ToRegisters(v, o) \in Registers4
    BY DEF Bytes8, Registers4, Register, float64ToRegisters, Swapped, Reg
  <1> QED
    BY <1>1, <1>2, <1>3

LEMMA DecodedType ==
  ASSUME NEW o
  PROVE  /\ \A r \in Registers2 : Decode32(r, o) \in Bytes4
         /\ \A r \in Registers4 : Decode64(r, o) \in Bytes8
  <1>1. ASSUME NEW r \in Registers2 PROVE Decode32(r, o) \in Bytes4
    <2>1. putBytesWithOrder(r, o) \in Bytes4
      BY ByteAssumption DEF putBytesWithOrder, Flat2, Swapped, Bytes4,
                            Registers2, Register
    <2>2. \A b \in Bytes4 : getUint32WithOrder(b, o) \in Bytes4
      BY DEF getUint32WithOrder, Bytes4
    <2> QED
      BY <2>1, <2>2 DEF Decode32
  <1>2. ASSUME NEW r \in Registers4 PROVE Decode64(r, o) \in Bytes8
    <2>1. putFloat64BytesWithOrder(r, o) \in Bytes8
      BY ByteAssumption DEF putFloat64BytesWithOrder, Flat4, Swapped, Bytes8,
                            Registers4, Register
    <2>2. \A b \in Bytes8 : Reversed8(b) \in Bytes8
      BY DEF Reversed8, Bytes8
    <2> QED
      BY <2>1, <2>2 DEF Decode64
  <1> QED
    BY <1>1, <1>2

(* The classes of data types.                                              *)
LEMMA ByClass ==
  /\ dataType \in Types32 \cup {"string"} =>
        Values(dataType) = Bytes4 /\ Blocks(dataType) = Registers2
  /\ dataType \in Types64 =>
        Values(dataType) = Bytes8 /\ Blocks(dataType) = Registers4
  /\ dataType \in Types16 \cup {"bool"} =>
        /\ Values(dataType) = Register
        /\ Blocks(dataType) = {<<r>> : r \in Register}
  BY DEF Values, Blocks, Types16, Types32, Types64, Bytes4, Bytes8,
         Registers2, Registers4

LEMMA DeviceType ==
  ASSUME byteOrder \in ByteOrders, dataType \in DataTypes,
         NEW v \in Values(dataType)
  PROVE  DeviceLayout(v) \in Blocks(dataType)
  <1>1. CASE dataType \in Types32
    BY <1>1, ByClass, DeviceAgrees32, EncodedType DEF Bytes4
  <1>2. CASE dataType \in Types64
    BY <1>2, ByClass, DeviceAgrees64, EncodedType DEF Bytes8
  <1>3. CASE dataType = "string"
    <2>1. v \in Bytes4 /\ DeviceLayout(v) = <<Reg(v, 1), Reg(v, 2)>>
      BY <1>3, ByClass DEF DeviceLayout, Types32, Types64
    <2> QED
      BY <1>3, <2>1, ByClass DEF Reg, Bytes4, Registers2, Register
  <1>4. CASE dataType \in Types16 \cup {"bool"}
    BY <1>4, ByClass DEF DeviceLayout, Types16, Types32, Types64
  <1> QED
    BY <1>1, <1>2, <1>3, <1>4 DEF DataTypes, Numeric

LEMMA ResultType ==
  ASSUME dataType \in Numeric, registers \in Blocks(dataType), NEW o
  PROVE  Decode(registers, o) \in Values(dataType)
  <1>1. CASE dataType \in Types16
    <2>1. Decode(registers, o) = registers[1]
      BY <1>1 DEF Decode, Types16, Types32, Types64
    <2>2. PICK r \in Register : registers = <<r>>
      BY <1>1, ByClass
    <2> QED
      BY <1>1, <2>1, <2>2, ByClass
  <1>2. CASE dataType \in Types32
    <2>1. Decode(registers, o) = Decode32(registers, o)
      BY <1>2 DEF Decode, Decode32, Types16, Types32, Types64
    <2> QED
      BY <1>2, <2>1, ByClass, DecodedType
  <1>3. CASE dataType \in Types64
    <2>1. Decode(registers, o) = Decode64(registers, o)
      BY <1>3 DEF Decode, Decode64, Types16, Types32, Types64
    <2> QED
      BY <1>3, <2>1, ByClass, DecodedType
  <1> QED
    BY <1>1, <1>2, <1>3 DEF Numeric

(* A write and a store of the device fill the registers of the point's     *)
(* type, and a read of a number returns a value of its type, for every     *)
(* order, a misspelt one included.                                         *)
THEOREM TypeCorrect == Spec => []TypeOK
  <1>1. Init => TypeOK
    <2> SUFFICES ASSUME Init PROVE TypeOK
      OBVIOUS
    <2>1. registers \in Blocks(dataType)
      BY DeviceType DEF Init
    <2> QED
      BY <2>1 DEF Init, TypeOK, NotRead
  <1>2. TypeOK /\ [Next]_vars => TypeOK'
    <2> SUFFICES ASSUME TypeOK, [Next]_vars PROVE TypeOK'
      OBVIOUS
    <2>1. ASSUME NEW v \in Values(dataType), DeviceStores(v) PROVE TypeOK'
      <3>1. DeviceLayout(v) \in Blocks(dataType)
        BY DeviceType DEF TypeOK
      <3> QED
        BY <2>1, <3>1 DEF DeviceStores, TypeOK, NotRead
    <2>2. ASSUME NEW v \in Values(dataType), writeHoldingRegister(v)
          PROVE  TypeOK'
      <3>1. registers' \in Blocks(dataType)
        <4>1. CASE dataType \in Types16
          BY <2>2, <4>1, ByClass, EncodedType DEF writeHoldingRegister
        <4>2. CASE dataType \in Types32
          <5>1. registers' = int32ToRegisters(v, byteOrder)
            BY <2>2, <4>2 DEF writeHoldingRegister, Types16, Types32, Types64
          <5> QED
            BY <4>2, <5>1, ByClass, EncodedType
        <4>3. CASE dataType \in Types64
          <5>1. registers' = float64ToRegisters(v, byteOrder)
            BY <2>2, <4>3 DEF writeHoldingRegister, Types16, Types32, Types64
          <5> QED
            BY <4>3, <5>1, ByClass, EncodedType
        <4> QED
          BY <2>2, <4>1, <4>2, <4>3 DEF writeHoldingRegister, Numeric
      <3>2. stored' = v /\ writer' = "service"
        BY <2>2 DEF writeHoldingRegister
      <3>3. polled' = NotRead /\ single' = NotRead
        BY <2>2 DEF writeHoldingRegister
      <3>4. byteOrder' = byteOrder /\ dataType' = dataType
        BY <2>2 DEF writeHoldingRegister
      <3>5. Values(dataType)' = Values(dataType)
            /\ Blocks(dataType)' = Blocks(dataType)
        BY <3>4 DEF Values, Blocks
      <3> QED
        BY <3>1, <3>2, <3>3, <3>4, <3>5 DEF TypeOK, NotRead
    <2>3. CASE parseRegistersForPoint
      BY <2>3, ResultType, PollDecodes DEF parseRegistersForPoint, TypeOK
    <2>4. CASE collectSinglePoint
      BY <2>4, ResultType, ReadDecodes DEF collectSinglePoint, TypeOK
    <2>5. CASE UNCHANGED vars
      BY <2>5 DEF vars, TypeOK
    <2> QED
      BY <2>1, <2>2, <2>3, <2>4, <2>5 DEF Next
  <1> QED
    BY <1>1, <1>2, PTL DEF Spec
=============================================================================
