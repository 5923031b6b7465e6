------------------------------ MODULE ByteOrder ------------------------------
(***************************************************************************)
(* How one point in the holding registers of a device is written and read  *)
(* (pkg/modbus/byteorder.go; parseRegistersForPoint, collectSinglePoint    *)
(* and writeHoldingRegister of pkg/modbus/collector.go).  A register is a  *)
(* pair of bytes, the high one first; a value is the tuple of its bytes,   *)
(* the most significant first, so int32, uint32 and float32 differ only in *)
(* what the bytes mean.  Both ways to read the point are there: the poll   *)
(* and the single read of the HTTP interface.                              *)
(***************************************************************************)
EXTENDS Naturals, Sequences

CONSTANT Byte   \* the values of a byte; scaled down

ASSUME ByteAssumption == Byte \subseteq Nat /\ 0 \in Byte

Types16 == {"int16", "uint16"}
Types32 == {"int32", "uint32", "float32"}
Types64 == {"float64"}
Numeric == Types16 \cup Types32 \cup Types64
DataTypes == Numeric \cup {"bool", "string"}

(* config.Validate does not look at byte_order: it may be missing ("") or  *)
(* misspelt ("other").                                                     *)
Configured == {"big", "little", "swap", "middle"}
ByteOrders == Configured \cup {"", "other"}

Register == Byte \X Byte

VARIABLES
    byteOrder,   \* device.ByteOrder
    dataType,    \* point.DataType
    registers,   \* the registers of the point, in the device
    stored,      \* history: the value that was stored in them
    writer,      \* history: who stored it
    polled,      \* history: the result of a poll since then
    single       \* history: the result of a single read since then

vars == <<byteOrder, dataType, registers, stored, writer,
          polled, single>>

(* A string point has two registers here, a bool point one.                *)
Values(type) ==
    CASE type \in Types32 \cup {"string"} -> Byte \X Byte \X Byte \X Byte
      [] type \in Types64 ->
            Byte \X Byte \X Byte \X Byte \X Byte \X Byte \X Byte \X Byte
      [] OTHER -> Register

Blocks(type) ==
    CASE type \in Types32 \cup {"string"} -> Register \X Register
      [] type \in Types64 -> Register \X Register \X Register \X Register
      [] OTHER -> {<<r>> : r \in Register}

NotRead == [read |-> FALSE, bits |-> <<>>]

-----------------------------------------------------------------------------
(* Writing: the ...ToRegisters functions.                                  *)
Swapped(r) == <<r[2], r[1]>>
Reg(v, k) == <<v[2 * k - 1], v[2 * k]>>

\* Mutant: a 16-bit value occupies two registers.
int16ToRegisters_Padded(v, order) ==
    <<IF order \in {"little", "swap"} THEN Swapped(v) ELSE v, <<0, 0>>>>

int16ToRegisters(v, order) ==
    <<IF order \in {"little", "swap"} THEN Swapped(v) ELSE v>>

\* Mutant: little endian exchanges the registers and not their bytes.
int32ToRegisters_WordsOnly(v, order) ==
    CASE order = "little" -> <<Reg(v, 2), Reg(v, 1)>>
      [] order = "swap"   -> <<Swapped(Reg(v, 1)), Swapped(Reg(v, 2))>>
      [] order = "middle" -> <<Reg(v, 2), Reg(v, 1)>>
      [] OTHER            -> <<Reg(v, 1), Reg(v, 2)>>

int32ToRegisters(v, order) ==
    CASE order = "little" -> <<Swapped(Reg(v, 2)), Swapped(Reg(v, 1))>>
      [] order = "swap"   -> <<Swapped(Reg(v, 1)), Swapped(Reg(v, 2))>>
      [] order = "middle" -> <<Reg(v, 2), Reg(v, 1)>>
      [] OTHER            -> <<Reg(v, 1), Reg(v, 2)>>

float64ToRegisters(v, order) ==
    CASE order = "little" -> <<Swapped(Reg(v, 4)), Swapped(Reg(v, 3)),
                               Swapped(Reg(v, 2)), Swapped(Reg(v, 1))>>
      [] order = "swap"   -> <<Swapped(Reg(v, 1)), Swapped(Reg(v, 2)),
                               Swapped(Reg(v, 3)), Swapped(Reg(v, 4))>>
      [] order = "middle" -> <<Reg(v, 3), Reg(v, 4), Reg(v, 1), Reg(v, 2)>>
      [] OTHER            -> <<Reg(v, 1), Reg(v, 2), Reg(v, 3), Reg(v, 4)>>

-----------------------------------------------------------------------------
(* Reading.  An order that is none of the four leaves the bytes at zero.   *)
(* Little endian puts the bytes of the swapped registers in little-endian  *)
(* order, that is as they were, and reads the whole backwards.             *)
Flat2(a, b) == <<a[1], a[2], b[1], b[2]>>
Flat4(a, b, c, d) == <<a[1], a[2], b[1], b[2], c[1], c[2], d[1], d[2]>>

\* Mutant: the registers are not exchanged for the middle order.
putBytesWithOrder_NoMiddle(r, order) ==
    CASE order \in {"big", "little", "middle"} -> Flat2(r[1], r[2])
      [] order = "swap"   -> Flat2(Swapped(r[1]), Swapped(r[2]))
      [] OTHER            -> <<0, 0, 0, 0>>

putBytesWithOrder(r, order) ==
    CASE order \in {"big", "little"} -> Flat2(r[1], r[2])
      [] order = "swap"   -> Flat2(Swapped(r[1]), Swapped(r[2]))
      [] order = "middle" -> Flat2(r[2], r[1])
      [] OTHER            -> <<0, 0, 0, 0>>

getUint32WithOrder(b, order) ==
    IF order = "little" THEN <<b[4], b[3], b[2], b[1]>> ELSE b

putFloat64BytesWithOrder(r, order) ==
    CASE order \in {"big", "little"} -> Flat4(r[1], r[2], r[3], r[4])
      [] order = "swap"   -> Flat4(Swapped(r[1]), Swapped(r[2]),
                                   Swapped(r[3]), Swapped(r[4]))
      [] order = "middle" -> Flat4(r[3], r[4], r[1], r[2])
      [] OTHER            -> <<0, 0, 0, 0, 0, 0, 0, 0>>

Reversed8(b) == <<b[8], b[7], b[6], b[5], b[4], b[3], b[2], b[1]>>

(* The bytes of a string up to the first zero.                             *)
Text(b) ==
    SubSeq(b, 1, CHOOSE k \in 0..Len(b) :
                    /\ \A m \in 1..k : b[m] # 0
                    /\ k = Len(b) \/ b[k + 1] = 0)

-----------------------------------------------------------------------------
(* The device stores a value in the layout its byte order stands for: the  *)
(* table of docs/byte_order.md says which of the bytes A, B, C, D of the   *)
(* value each byte of the registers holds, and the comments of the read    *)
(* path extend it to eight bytes.  A device whose order is not configured  *)
(* is big endian.  16-bit values, bools and strings are never rearranged.  *)
Layout32 == [big |-> <<1, 2, 3, 4>>, little |-> <<4, 3, 2, 1>>,
             swap |-> <<2, 1, 4, 3>>, middle |-> <<3, 4, 1, 2>>]
Layout64 == [big |-> <<1, 2, 3, 4, 5, 6, 7, 8>>,
             little |-> <<8, 7, 6, 5, 4, 3, 2, 1>>,
             swap |-> <<2, 1, 4, 3, 6, 5, 8, 7>>,
             middle |-> <<5, 6, 7, 8, 1, 2, 3, 4>>]

DeviceOrder == IF byteOrder \in Configured THEN byteOrder ELSE "big"

Arranged(v, layout, k) == <<v[layout[2 * k - 1]], v[layout[2 * k]]>>

DeviceLayout(v) ==
    LET l32 == Layout32[DeviceOrder]
        l64 == Layout64[DeviceOrder]
    IN  CASE dataType \in Types32 ->
                <<Arranged(v, l32, 1), Arranged(v, l32, 2)>>
          [] dataType \in Types64 ->
                <<Arranged(v, l64, 1), Arranged(v, l64, 2),
                  Arranged(v, l64, 3), Arranged(v, l64, 4)>>
          [] dataType = "string" -> <<Reg(v, 1), Reg(v, 2)>>
          [] OTHER -> <<v>>

Init ==
    /\ byteOrder \in ByteOrders
    /\ dataType \in DataTypes
    /\ stored \in Values(dataType)
    /\ registers = DeviceLayout(stored)
    /\ writer = "device"
    /\ polled = NotRead
    /\ single = NotRead

DeviceStores(v) ==
    /\ registers' = DeviceLayout(v)
    /\ stored' = v
    /\ writer' = "device"
    /\ polled' = NotRead
    /\ single' = NotRead
    /\ UNCHANGED <<byteOrder, dataType>>

(* writeHoldingRegister, which refuses a bool and a string and passes      *)
(* byte_order on as it is configured.                                      *)
writeHoldingRegister(v) ==
    /\ dataType \in Numeric
    /\ registers' = CASE dataType \in Types16 -> int16ToRegisters(v, byteOrder)
                      [] dataType \in Types32 -> int32ToRegisters(v, byteOrder)
                      [] dataType \in Types64 -> float64ToRegisters(v, byteOrder)
    /\ stored' = v
    /\ writer' = "service"
    /\ polled' = NotRead
    /\ single' = NotRead
    /\ UNCHANGED <<byteOrder, dataType>>

(* The poll: parseRegistersForPoint decodes the point's part of what a     *)
(* batch has read.  A missing order is big.                                *)
deviceByteOrder == IF byteOrder = "" THEN "big" ELSE byteOrder

ParsedFloat64(r, order) ==
    LET b == putFloat64BytesWithOrder(r, order)
    IN  IF order = "little" THEN Reversed8(b) ELSE b

Parsed(r, order) ==
    CASE dataType \in Types16 -> r[1]
      [] dataType \in Types32 ->
            getUint32WithOrder(putBytesWithOrder(r, order), order)
      [] dataType \in Types64 -> ParsedFloat64(r, order)
      [] dataType = "bool"    -> <<IF r[1] = <<0, 0>> THEN 0 ELSE 1>>
      [] dataType = "string"  -> Text(Flat2(r[1], r[2]))

parseRegistersForPoint ==
    /\ polled' = [read |-> TRUE, bits |-> Parsed(registers, deviceByteOrder)]
    /\ UNCHANGED <<byteOrder, dataType, registers, stored, writer, single>>

(* The single read: collectSinglePoint has a read function for each type,  *)
(* a second copy of the decoding, with the order as it is configured.      *)
readInt16(r) == r[1]

readInt32(r) ==
    LET b == putBytesWithOrder(r, byteOrder)
    IN  getUint32WithOrder(b, byteOrder)

\* Mutant: this copy has not been taught little endian.
readFloat64_BigOnly(r) == putFloat64BytesWithOrder(r, byteOrder)

readFloat64(r) ==
    LET b == putFloat64BytesWithOrder(r, byteOrder)
    IN  IF byteOrder = "little" THEN Reversed8(b) ELSE b

readBool(r) == <<IF r[1] # <<0, 0>> THEN 1 ELSE 0>>

readString(r) == Text(Flat2(r[1], r[2]))

ReadResult(r) ==
    CASE dataType \in Types16 -> readInt16(r)
      [] dataType \in Types32 -> readInt32(r)
      [] dataType \in Types64 -> readFloat64(r)
      [] dataType = "bool"    -> readBool(r)
      [] dataType = "string"  -> readString(r)

collectSinglePoint ==
    /\ single' = [read |-> TRUE, bits |-> ReadResult(registers)]
    /\ UNCHANGED <<byteOrder, dataType, registers, stored, writer, polled>>

Next ==
    \/ \E v \in Values(dataType) : DeviceStores(v) \/ writeHoldingRegister(v)
    \/ parseRegistersForPoint
    \/ collectSinglePoint

Spec == Init /\ [][Next]_vars

-----------------------------------------------------------------------------
TypeOK ==
    /\ byteOrder \in ByteOrders
    /\ dataType \in DataTypes
    /\ registers \in Blocks(dataType)
    /\ stored \in Values(dataType)
    /\ writer \in {"device", "service"}
    /\ \A r \in {polled, single} :
          r.read /\ dataType \in Numeric => r.bits \in Values(dataType)

(* What the service writes of a 32-bit value has the layout that the table *)
(* of docs/byte_order.md gives the configured order: ABCD, DCBA, BADC or   *)
(* CDAB.  Two other places say otherwise, and the code is not with them:   *)
(* the little device of the example below the table keeps its registers as *)
(* they are, and the comment at ByteOrderSwap (config.go) has swap make    *)
(* CDAB of ABCD.                                                           *)
WritesDocumentedLayout ==
    writer = "service" /\ dataType \in Types32 /\ byteOrder \in Configured
        => \A k \in 1..4 :
              Flat2(registers[1], registers[2])[k]
                  = stored[Layout32[byteOrder][k]]

(* What was stored is what is read, whichever of the two ways it is read   *)
(* and whoever stored it, for every configured order and, in a poll, for   *)
(* none: the two encodings and the three steps of decoding are inverse.    *)
(* 16-bit values only if the device stored them.                           *)
ReadBack ==
    dataType \in Types32 \cup Types64
            \/ (dataType \in Types16 /\ writer = "device")
        => /\ polled.read /\ byteOrder # "other" => polled.bits = stored
           /\ single.read /\ byteOrder \in Configured => single.bits = stored

(* The two copies of the decoding, that of the poll and that of the single *)
(* read, give the same result for the same registers, for strings, bools   *)
(* and a misspelt order too.  They part only where the order is missing: a *)
(* number of more than 16 bits is then read singly as zero, whatever the   *)
(* registers hold.  A misspelt order makes it zero in both.                *)
Zero == IF dataType \in Types64 THEN <<0, 0, 0, 0, 0, 0, 0, 0>>
                                ELSE <<0, 0, 0, 0>>

PollAndReadAgree ==
    single.read =>
        /\ dataType \in Types32 \cup Types64 /\ byteOrder \notin Configured
              => single.bits = Zero
        /\ polled.read /\ (byteOrder # "" \/ dataType \notin Types32 \cup Types64)
              => polled.bits = single.bits

-----------------------------------------------------------------------------
(* What the documents and comments say and the code does not.              *)

(* The byte order has no effect on int16, uint16 and bool                  *)
(* (docs/byte_order.md): a 16-bit value that the service writes is read    *)
(* back.                                                                   *)
ByteOrderIgnoredFor16Bit ==
    dataType \in Types16 /\ polled.read => polled.bits = stored
=============================================================================
