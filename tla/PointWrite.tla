------------------------------ MODULE PointWrite ------------------------------
(***************************************************************************)
(* What becomes of a number between a JSON request, the registers of a     *)
(* point, the message of a poll and the answer to a read:                  *)
(* pkg/modbus/converter.go, writeCoil, writeHoldingRegister, the scaling   *)
(* of collectBatchGroup and the read functions of collectSinglePoint in    *)
(* pkg/modbus/collector.go, handleWritePoint of pkg/http/server.go.        *)
(* Connections and locks are Collector's subject.  How the byte order lays *)
(* out a number is ByteOrder's; here is what it does to the number: the    *)
(* bytes of 16 bits exchanged by a write and not by a read, zero read for  *)
(* more than 16 bits under an order that the read function does not know.  *)
(* A number is counted in parts, Unit of them to one.                      *)
(***************************************************************************)
EXTENDS Integers, FiniteSets

CONSTANTS Unit,      \* parts of one
          ByteSize,  \* 2^8, scaled down
          Size32,    \* 2^32
          Size64,    \* 2^64
          Numbers,   \* the numbers of the requests and of the device's floats
          Float32,   \* those of them that a float32 expresses
          Scales,    \* configured scales, in parts
          Orders,    \* device.ByteOrder, as it is configured
          None,      \* nothing yet
          Failed,    \* the outcome of a read that failed
          NotFinite  \* a float that is NaN or an infinity

Configured == {"big", "little", "swap", "middle"}

Unsigned == {"uint16", "uint32", "uint64"}
Signed == {"int16", "int32", "int64"}
Types16 == {"int16", "uint16"}
Integer == Types16 \cup {"int32", "uint32"}
Floats == {"float32", "float64"}
Numeric == Integer \cup Floats
DataTypes == Numeric \cup {"bool", "string"}
BitTypes == {"coil", "discrete_input"}
RegisterTypes == BitTypes \cup {"input_register", "holding_register"}

Size16 == ByteSize * ByteSize

ASSUME PointWriteAssumption ==
    /\ Unit \in Nat \ {0}
    /\ ByteSize \in Nat \ {0}
    /\ \A s \in {Size16, Size32, Size64} : s \in Nat \ {0} /\ s % 2 = 0
    /\ Size16 <= Size32 /\ Size32 <= Size64

ASSUME NumbersAssumption ==
    /\ Numbers \subseteq Int /\ 0 \in Numbers
    /\ Float32 \subseteq Numbers /\ 0 \in Float32 /\ IsFiniteSet(Float32)
    /\ Scales \subseteq Int \ {0}
    /\ Orders \subseteq Configured \cup {"", "other"}
    /\ None \notin Int /\ Failed \notin Int /\ NotFinite \notin Int
    /\ None # Failed /\ None # NotFinite /\ Failed # NotFinite

Size(type) == CASE type \in Types16 -> Size16
                [] type \in {"int32", "uint32"} -> Size32
                [] OTHER -> Size64

Values(type) == IF type \in Unsigned THEN 0..Size(type) - 1
                ELSE -(Size(type) \div 2)..Size(type) \div 2 - 1

VARIABLES
    point,    \* register type, data type and scale of the point
    order,    \* the byte order of its device; "other" is a misspelt one
    held,     \* the number in its registers; 0 or Unit for a bit
    answer,   \* the HTTP status of the last write
    sent,     \* history: the value of the last write, if it was answered
              \* with 200 and the device has not changed the point since
    polled,   \* the value of the last poll since
    single    \* the value of the last read since; Failed if it failed

vars == <<point, order, held, answer, sent, polled, single>>

Points == [register : BitTypes, data : {"bool", "int16", "uint16"}, scale : Scales]
          \cup [register : RegisterTypes \ BitTypes, data : DataTypes,
                scale : Scales]

(* The numbers the registers may hold, as the point's type and the order   *)
(* stand for them; without a known order, as big endian does.              *)
FloatValues(type) ==
    {NotFinite} \cup (IF type = "float32" THEN Float32 ELSE Numbers)

Contents ==
    CASE point.register \in BitTypes \/ point.data \notin Numeric -> {0, Unit}
      [] point.register \notin BitTypes /\ point.data \in Floats ->
            FloatValues(point.data)
      [] point.register \notin BitTypes /\ point.data \in Integer ->
            {Unit * n : n \in Values(point.data)}

(* What a JSON value may be; toInt64 and its like know numbers only.       *)
Requests == [kind : {"number"}, x : Numbers] \cup [kind : {"bool"}, x : {0, Unit}]
            \cup [kind : {"string", "object", "null"}, x : {0}]

Init ==
    /\ point \in Points
    /\ order \in Orders
    /\ held \in Contents
    /\ answer = 0
    /\ sent = None /\ polled = None /\ single = None

Changed == sent' = None /\ polled' = None /\ single' = None

DeviceStores ==
    /\ held' \in Contents
    /\ Changed
    /\ UNCHANGED <<point, order, answer>>

-----------------------------------------------------------------------------
(* Go's conversions.  A float becomes an integer without its fraction; one *)
(* outside the type becomes whatever the machine makes of it.              *)
Truncated(x) == IF x >= 0 THEN x \div Unit ELSE -((-x) \div Unit)

FromFloat(x, type) ==
    IF Truncated(x) \in Values(type) THEN {Truncated(x)} ELSE Values(type)

(* An integer becomes a narrower one by losing its upper bits.             *)
\* Mutant: the upper bits are kept.
Narrowed_Not(n, type) == n

\* Mutant: every narrow integer is signed.
Narrowed_Signed(n, type) ==
    LET m == n % Size(type)
    IN  IF m \in Values("int16") THEN m ELSE m - Size(type)

Narrowed(n, type) ==
    LET m == n % Size(type)
    IN  IF m \in Values(type) THEN m ELSE m - Size(type)

toInt64(v) == IF v.kind = "number" THEN FromFloat(v.x, "int64") ELSE {0}
toUint64(v) == IF v.kind = "number" THEN FromFloat(v.x, "uint64") ELSE {0}

(* A float64 becomes a float32 next to it.  Beyond the largest one it may  *)
(* also become an infinity.                                                *)
Distance(x, y) == IF x >= y THEN x - y ELSE y - x

Nearest(x) ==
    {f \in Float32 : \A g \in Float32 : Distance(x, f) <= Distance(x, g)}
    \cup IF (\A f \in Float32 : f < x) \/ (\A f \in Float32 : x < f)
         THEN {NotFinite} ELSE {}

toFloat32(v) == IF v.kind = "number" THEN Nearest(v.x) ELSE {0}
toFloat64(v) == IF v.kind = "number" THEN {v.x} ELSE {0}

(* int16ToRegisters exchanges the bytes for the orders little and swap;    *)
(* the other functions lay a number out as the order wants it read.        *)
Exchanged(n) ==
    LET m == n % Size16
    IN  Narrowed((m % ByteSize) * ByteSize + m \div ByteSize, point.data)

Registers(n) ==
    IF point.data \in Types16 /\ order \in {"little", "swap"}
    THEN Unit * Exchanged(n) ELSE Unit * n

writeCoil(v) ==
    IF v.kind \in {"number", "bool"} THEN {IF v.x # 0 THEN Unit ELSE 0} ELSE {}

writeHoldingRegister(v) ==
    CASE point.data \in Signed ->
            {Registers(Narrowed(n, point.data)) : n \in toInt64(v)}
      [] point.data \in Unsigned ->
            {Registers(Narrowed(n, point.data)) : n \in toUint64(v)}
      [] point.data = "float32" -> toFloat32(v)
      [] point.data = "float64" -> toFloat64(v)
      [] OTHER -> {}

(* What WritePoint may send; nothing if it returns an error before.        *)
Written(v) ==
    CASE point.register = "coil" -> writeCoil(v)
      [] point.register = "holding_register" -> writeHoldingRegister(v)
      [] OTHER -> {}

(* handleWritePoint.  A request that fails may have reached the device.    *)
Acknowledged(v) ==
    /\ held' \in Written(v)
    /\ answer' = 200
    /\ sent' = v /\ polled' = None /\ single' = None

NotAcknowledged(v) ==
    /\ held' \in {held} \cup Written(v)
    /\ answer' = 500
    /\ Changed

handleWritePoint(v) ==
    /\ IF v.kind = "null"
       THEN answer' = 400 /\ UNCHANGED <<held, sent, polled, single>>
       ELSE Acknowledged(v) \/ NotAcknowledged(v)
    /\ UNCHANGED <<point, order>>

-----------------------------------------------------------------------------
(* Reading.  16 bits are taken as they are; more are zero under an order   *)
(* that putBytesWithOrder does not know.  A poll takes a missing order for *)
(* big, a single read takes it as it is.                                   *)
deviceByteOrder == IF order = "" THEN "big" ELSE order

Decoded(o) ==
    IF point.data \in Numeric \ Types16 /\ o \notin Configured THEN 0 ELSE held

(* A poll applies the scale.  An integer is multiplied as a float64 and    *)
(* becomes an integer again; the product may be rounded, but not past a    *)
(* whole number.  What a float times the scale is rounded to is left open. *)
\* Mutant: the scale is an integer, too.
Product_OfIntegers(x) == x * (point.scale \div Unit)

Product(x) == (x * point.scale) \div Unit

Rounded(p) ==
    IF p % Unit = 0 THEN {p}
    ELSE LET k == p \div Unit IN Unit * k .. Unit * k + Unit

Scaled(x) ==
    IF point.scale = Unit \/ point.data \notin Numeric THEN {x}
    ELSE IF point.data \in Floats THEN FloatValues(point.data)
    ELSE {Unit * n : n \in UNION {FromFloat(r, point.data)
                                   : r \in Rounded(Product(x))}}

Poll ==
    /\ polled' \in Scaled(Decoded(deviceByteOrder))
    /\ UNCHANGED <<point, order, held, answer, sent, single>>

(* A read knows no register type of bits, and no scale.                    *)
ReadSinglePoint ==
    /\ single' = IF point.register \in BitTypes THEN Failed ELSE Decoded(order)
    /\ UNCHANGED <<point, order, held, answer, sent, polled>>

Next ==
    \/ DeviceStores
    \/ \E v \in Requests : handleWritePoint(v)
    \/ Poll \/ ReadSinglePoint

Spec == Init /\ [][Next]_vars

-----------------------------------------------------------------------------
TypeOK ==
    /\ point \in Points
    /\ order \in Orders
    /\ held \in Contents
    /\ answer \in {0, 200, 400, 500}
    /\ sent \in Requests \cup {None}
    /\ polled \in Int \cup {None, NotFinite}
    /\ single \in Int \cup {None, Failed, NotFinite}

Representable(x) == point.register = "holding_register" /\ x \in Contents

(* The orders under which a number survives a write and a read.            *)
Kept(o) == IF point.data \in Types16 THEN o \notin {"little", "swap"}
           ELSE o \in Configured

(* A number that the point's type can express and whose write was answered *)
(* with 200 is what both ways of reading return: a poll if the point is    *)
(* not scaled, a read of more than 16 bits if the order is configured, and *)
(* both, of 16 bits, if the order is neither little nor swap.  And a coil  *)
(* is on exactly if the number was not zero.                               *)
AcknowledgedNumberIsRead ==
    sent # None =>
        /\ sent.kind = "number" /\ Representable(sent.x) =>
              /\ single # None /\ Kept(order) => single = sent.x
              /\ polled # None /\ point.scale = Unit /\ Kept(deviceByteOrder)
                    => polled = sent.x
        /\ point.register = "coil" /\ point.scale = Unit /\ polled # None =>
              (polled = 0 <=> sent.x = 0)

(* A poll of an integer n deviates by less than one from n times the scale *)
(* if whole numbers of the point's type lie on both sides of that, however *)
(* the product is rounded.  (Not under a misspelt order, nor for floats.)  *)
ScaledWithinOne ==
    \A n \in Values(point.data) :
        /\ polled # None /\ held = Unit * n
        /\ point.data \in Integer
        /\ point.data \in Types16 \/ order # "other"
        => LET p == n * point.scale
           IN  (\E a, b \in Values(point.data) : p \in Unit * a .. Unit * b)
                  => polled - p \in 1 - Unit .. Unit - 1
=============================================================================
