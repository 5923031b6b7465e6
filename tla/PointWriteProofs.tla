--------------------------- MODULE PointWriteProofs ---------------------------
(***************************************************************************)
(* What PointWrite promises, for every width, every unit and every scale.  *)
(* Three facts carry the argument: a write leaves one of the numbers       *)
(* Written(v) gives in the registers and only a store of the device or a   *)
(* failed write changes that (SentInv), a poll and a read report what they *)
(* make of the registers as they are now (ReadInv), and the conversions    *)
(* between them neither leave the point's type nor change a number that    *)
(* fits into it, unless the bytes of 16 bits are exchanged.                *)
(***************************************************************************)
EXTENDS PointWrite, TLAPS

(* Quotients, remainders and products of integers.                         *)
LEMMA Quotient ==
  ASSUME NEW a \in Int, NEW b \in Nat \ {0}
  PROVE  /\ a \div b \in Int
         /\ b * (a \div b) \in Int
         /\ b * (a \div b) \in a - b + 1..a
         /\ a >= 0 => a \div b >= 0
  OBVIOUS

LEMMA Remainder ==
  ASSUME NEW a \in Int, NEW b \in Nat \ {0}
  PROVE  /\ a % b \in 0..b - 1
         /\ a \in 0..b - 1 => a % b = a
         /\ a \in -b..-1 => a % b = a + b
  OBVIOUS

LEMMA Multiple ==
  ASSUME NEW a \in Int, NEW b \in Nat \ {0}
  PROVE  /\ (b * a) \div b = a
         /\ (a * b) \div b = a
         /\ b * a \in Int
         /\ b * a >= 0 <=> a >= 0
         /\ -(b * a) = b * (-a)
  <1>1. b * a \in Int /\ -(b * a) = b * (-a)
    OBVIOUS
  <1>2. (b * a) \div b = a /\ (a * b) \div b = a
    OBVIOUS
  <1>3. a >= 0 => b * a >= 0
    OBVIOUS
  <1>4. a < 0 => b * a < 0
    OBVIOUS
  <1> QED
    BY <1>1, <1>2, <1>3, <1>4

LEMMA Products ==
  ASSUME NEW a \in Int, NEW b \in Int, NEW c \in Nat \ {0}
  PROVE  /\ a * b \in Int
         /\ a * c = c * a
         /\ (c * a) * b = c * (a * b)
  OBVIOUS

(* The widths are positive and even, and the types of a point are no wider *)
(* than the integers its number passes through.                            *)
LEMMA Widths ==
  ASSUME NEW type
  PROVE  /\ Size(type) \in Nat \ {0}
         /\ Size(type) \div 2 \in Nat \ {0}
         /\ Size(type) = 2 * (Size(type) \div 2)
         /\ Size(type) <= Size64
         /\ Size64 \in Nat \ {0}
         /\ Size64 = 2 * (Size64 \div 2)
  <1>1. \A s \in {Size16, Size32, Size64} :
           /\ s \in Nat \ {0}
           /\ s \div 2 \in Nat \ {0}
           /\ s = 2 * (s \div 2)
    <2> SUFFICES ASSUME NEW s \in {Size16, Size32, Size64}
                 PROVE  /\ s \in Nat \ {0}
                        /\ s \div 2 \in Nat \ {0}
                        /\ s = 2 * (s \div 2)
      OBVIOUS
    <2>1. s \in Nat \ {0} /\ s % 2 = 0
      BY PointWriteAssumption
    <2> QED
      BY <2>1
  <1>2. Size(type) \in {Size16, Size32, Size64}
    BY DEF Size, Types16
  <1>3. \A s \in {Size16, Size32, Size64} : s <= Size64
    <2>1. Size16 <= Size32 /\ Size32 <= Size64
      BY PointWriteAssumption
    <2>2. Size16 \in Nat /\ Size32 \in Nat /\ Size64 \in Nat
      BY <1>1
    <2> HIDE DEF Size16
    <2> QED
      BY ONLY <2>1, <2>2
  <1> HIDE DEF Size
  <1> QED
    BY <1>1, <1>2, <1>3

(* The values of a type, as an interval.                                   *)
LEMMA Interval ==
  ASSUME NEW type
  PROVE  /\ Values(type) \subseteq Int
         /\ type \in Unsigned => Values(type) = 0..Size(type) - 1
         /\ type \in Signed =>
               Values(type) = -(Size(type) \div 2)..Size(type) \div 2 - 1
  <1>1. Unsigned \cap Signed = {}
    BY DEF Unsigned, Signed
  <1> QED
    BY <1>1, Widths DEF Values

(* Losing the upper bits leaves a value of the type, and does nothing to a *)
(* number that is one.                                                     *)
LEMMA NarrowedType ==
  ASSUME NEW n \in Int, NEW type \in Signed \cup Unsigned
  PROVE  /\ Narrowed(n, type) \in Values(type)
         /\ n \in Values(type) => Narrowed(n, type) = n
  <1> DEFINE s == Size(type)
             h == Size(type) \div 2
             m == n % s
  <1>1. /\ s \in Nat \ {0}
        /\ h \in Nat \ {0}
        /\ s = 2 * h
    BY Widths
  <1>2. /\ m \in 0..s - 1
        /\ n \in 0..s - 1 => m = n
        /\ n \in -s..-1 => m = n + s
    BY <1>1, Remainder
  <1>3. Narrowed(n, type) = IF m \in Values(type) THEN m ELSE m - s
    BY DEF Narrowed
  <1>4. CASE type \in Unsigned
    <2>1. Values(type) = 0..s - 1
      BY <1>4, Interval
    <2> HIDE DEF s, m
    <2> QED
      BY <1>2, <1>3, <2>1
  <1>5. CASE type \in Signed
    <2>1. Values(type) = -h..h - 1
      BY <1>5, Interval
    <2> HIDE DEF s, h, m
    <2>2. Narrowed(n, type) \in -h..h - 1
      BY <1>1, <1>2, <1>3, <2>1
    <2>3. ASSUME n \in -h..h - 1 PROVE Narrowed(n, type) = n
      BY <1>1, <1>2, <1>3, <2>1, <2>3
    <2> QED
      BY <2>1, <2>2, <2>3
  <1> QED
    BY <1>4, <1>5

(* A whole number loses no fraction.                                       *)
LEMMA TruncatedWhole ==
  ASSUME NEW n \in Int
  PROVE  Truncated(Unit * n) = n
  <1>1. Unit \in Nat \ {0}
    BY PointWriteAssumption
  <1>2. CASE n >= 0
    BY <1>1, <1>2, Multiple DEF Truncated
  <1>3. CASE n < 0
    <2>1. ~(Unit * n >= 0)
      BY <1>1, <1>3, Multiple
    <2>2. -(Unit * n) = Unit * (-n)
      BY <1>1, Multiple
    <2>3. (Unit * (-n)) \div Unit = -n
      BY <1>1, Multiple
    <2>4. Truncated(Unit * n) = -((-(Unit * n)) \div Unit)
      BY <2>1 DEF Truncated
    <2> QED
      BY <2>2, <2>3, <2>4
  <1> QED
    BY <1>2, <1>3

(* A float that is converted becomes a value of the type, and the whole    *)
(* number it stands for if that is one.                                    *)
LEMMA FromFloatType ==
  ASSUME NEW x, NEW type
  PROVE  /\ FromFloat(x, type) \subseteq Values(type)
         /\ Truncated(x) \in Values(type) => FromFloat(x, type) = {Truncated(x)}
  BY DEF FromFloat

(* Every value of a point's integer type fits into the 64-bit integer the  *)
(* request passes through.                                                 *)
LEMMA Widens ==
  /\ \A type \in Signed : Values(type) \subseteq Values("int64")
  /\ \A type \in Unsigned : Values(type) \subseteq Values("uint64")
  <1>1. Size("int64") = Size64 /\ Size("uint64") = Size64
    BY DEF Size, Types16
  <1>2. ASSUME NEW type \in Signed PROVE Values(type) \subseteq Values("int64")
    <2> DEFINE s == Size(type)
               h == Size(type) \div 2
               g == Size64 \div 2
    <2>1. /\ h \in Nat /\ s = 2 * h /\ s <= Size64
          /\ g \in Nat /\ Size64 = 2 * g
      BY Widths
    <2>2. Values(type) = -h..h - 1
      BY Interval
    <2>3. Values("int64") = -g..g - 1
      BY <1>1, Interval DEF Signed
    <2> HIDE DEF s, h, g
    <2>4. h <= g
      BY <2>1
    <2> QED
      BY <2>1, <2>2, <2>3, <2>4
  <1>3. ASSUME NEW type \in Unsigned
        PROVE  Values(type) \subseteq Values("uint64")
    <2>1. Size(type) \in Nat /\ Size64 \in Nat /\ Size(type) <= Size64
      BY Widths
    <2>2. Values(type) = 0..Size(type) - 1
      BY Interval
    <2>3. Values("uint64") = 0..Size64 - 1
      BY <1>1, Interval DEF Unsigned
    <2> QED
      BY <2>1, <2>2, <2>3
  <1> QED
    BY <1>2, <1>3

-----------------------------------------------------------------------------
(* The classes of points.                                                  *)
LEMMA Classes ==
  /\ Integer \subseteq Signed \cup Unsigned
  /\ Floats \cap (Signed \cup Unsigned) = {}
  /\ Signed \cap Unsigned = {}
  /\ {"bool", "string"} \cap (Signed \cup Unsigned \cup Floats) = {}
  BY DEF Integer, Types16, Signed, Unsigned, Floats

LEMMA PointFields ==
  ASSUME point \in Points
  PROVE  /\ point.data \in Integer \cup Floats \cup {"bool", "string"}
         /\ point.scale \in Int
  BY NumbersAssumption DEF Points, DataTypes, Numeric, Integer, Types16, Floats

LEMMA RequestFields ==
  ASSUME NEW v \in Requests
  PROVE  /\ v.kind = "number" => v.x \in Numbers
         /\ v.kind = "bool" => v.x \in {0, Unit}
         /\ v.x \in Int
  <1>1. 0 \in Int /\ Unit \in Int /\ Numbers \subseteq Int
    <2>1. Unit \in Int
      BY PointWriteAssumption
    <2> QED
      BY <2>1, NumbersAssumption
  <1>2. CASE v \in [kind : {"number"}, x : Numbers]
    <2>1. v.kind = "number" /\ v.x \in Numbers
      BY <1>2
    <2> QED
      BY <1>1, <2>1
  <1>3. CASE v \in [kind : {"bool"}, x : {0, Unit}]
    <2>1. v.kind = "bool" /\ v.x \in {0, Unit}
      BY <1>3
    <2> QED
      BY <1>1, <2>1
  <1>4. CASE v \in [kind : {"string", "object", "null"}, x : {0}]
    <2>1. v.kind \in {"string", "object", "null"} /\ v.x = 0
      BY <1>4
    <2> QED
      BY <1>1, <2>1
  <1> QED
    BY <1>2, <1>3, <1>4 DEF Requests

(* What the registers may hold, by the class of the point.                 *)
LEMMA ContentsByClass ==
  /\ point.register \in BitTypes => Contents = {0, Unit}
  /\ point.register \notin BitTypes =>
        /\ point.data \in Integer =>
              Contents = {Unit * n : n \in Values(point.data)}
        /\ point.data \in Floats => Contents = FloatValues(point.data)
        /\ point.data \in {"bool", "string"} => Contents = {0, Unit}
  <1>1. /\ Floats \cap Integer = {}
        /\ {"bool", "string"} \cap Numeric = {}
        /\ Numeric = Integer \cup Floats
    BY DEF Floats, Integer, Types16, Numeric
  <1> QED
    BY <1>1 DEF Contents

LEMMA FloatsAreNumbers ==
  ASSUME NEW type
  PROVE  FloatValues(type) \subseteq Int \cup {NotFinite}
  BY NumbersAssumption DEF FloatValues

LEMMA ContentsAreNumbers ==
  ASSUME point \in Points
  PROVE  Contents \subseteq Int \cup {NotFinite}
  <1>1. Unit \in Nat \ {0}
    BY PointWriteAssumption
  <1>2. \A n \in Values(point.data) : Unit * n \in Int
    BY <1>1, Interval
  <1>3. CASE point.register \in BitTypes \/ point.data \in {"bool", "string"}
    <2>1. Contents = {0, Unit}
      BY <1>3, ContentsByClass
    <2> QED
      BY <1>1, <2>1
  <1>4. CASE point.register \notin BitTypes /\ point.data \in Integer
    <2>1. Contents = {Unit * n : n \in Values(point.data)}
      BY <1>4, ContentsByClass
    <2> QED
      BY <1>2, <2>1
  <1>5. CASE point.register \notin BitTypes /\ point.data \in Floats
    BY <1>5, ContentsByClass, FloatsAreNumbers
  <1> QED
    BY <1>3, <1>4, <1>5, PointFields

(* Exchanging the bytes leaves a value of the type.                        *)
LEMMA RegistersType ==
  ASSUME point.data \in Integer, NEW n \in Values(point.data)
  PROVE  /\ Registers(n) \in {Unit * k : k \in Values(point.data)}
         /\ Kept(order) => Registers(n) = Unit * n
  <1>1. point.data \in Signed \cup Unsigned /\ n \in Int
    BY Classes, Interval
  <1> DEFINE m == n % Size16
             x == (m % ByteSize) * ByteSize + m \div ByteSize
  <1>2. ByteSize \in Nat \ {0} /\ Size16 \in Nat \ {0}
    BY PointWriteAssumption
  <1>3. m \in Int
    BY <1>1, <1>2, Remainder
  <1>4. x \in Int
    <2> HIDE DEF m
    <2>1. m % ByteSize \in Int /\ m \div ByteSize \in Int
      BY <1>2, <1>3, Remainder, Quotient
    <2> QED
      BY <1>2, <2>1
  <1>5. Exchanged(n) = Narrowed(x, point.data)
    BY DEF Exchanged
  <1> HIDE DEF m, x
  <1>6. Exchanged(n) \in Values(point.data)
    BY <1>1, <1>4, <1>5, NarrowedType
  <1> QED
    BY <1>6 DEF Registers, Kept

(* What is written into holding registers, by the class of the point.      *)
LEMMA WrittenByClass ==
  ASSUME NEW v
  PROVE  /\ point.data \in Signed =>
               writeHoldingRegister(v)
                 = {Registers(Narrowed(n, point.data)) : n \in toInt64(v)}
         /\ point.data \in Unsigned =>
               writeHoldingRegister(v)
                 = {Registers(Narrowed(n, point.data)) : n \in toUint64(v)}
         /\ point.data = "float32" => writeHoldingRegister(v) = toFloat32(v)
         /\ point.data = "float64" => writeHoldingRegister(v) = toFloat64(v)
         /\ point.data \in {"bool", "string"} => writeHoldingRegister(v) = {}
  <1>1. "float32" \in Floats /\ "float64" \in Floats
    BY DEF Floats
  <1> QED
    BY <1>1, Classes DEF writeHoldingRegister

LEMMA WrittenByRegister ==
  ASSUME NEW v
  PROVE  /\ point.register = "coil" => Written(v) = writeCoil(v)
         /\ point.register = "holding_register" =>
               Written(v) = writeHoldingRegister(v)
         /\ point.register \notin {"coil", "holding_register"} =>
               Written(v) = {}
  BY DEF Written

(* The 64-bit integers of a request.                                       *)
LEMMA RequestIntegers ==
  ASSUME NEW v
  PROVE  toInt64(v) \subseteq Int /\ toUint64(v) \subseteq Int
  <1>1. \A type : FromFloat(v.x, type) \subseteq Int
    BY FromFloatType, Interval
  <1> QED
    BY <1>1 DEF toInt64, toUint64

(* A write leaves contents of the point's type, whatever the request says. *)
LEMMA WrittenType ==
  ASSUME point \in Points, NEW v \in Requests
  PROVE  Written(v) \subseteq Contents
  <1>1. CASE point.register = "coil"
    <2>1. Contents = {0, Unit}
      BY <1>1, ContentsByClass DEF BitTypes
    <2>2. writeCoil(v) \subseteq {0, Unit}
      BY DEF writeCoil
    <2> QED
      BY <1>1, <2>1, <2>2, WrittenByRegister
  <1>2. CASE point.register = "holding_register"
    <2>1. point.register \notin BitTypes /\ Written(v) = writeHoldingRegister(v)
      BY <1>2, WrittenByRegister DEF BitTypes
    <2>2. CASE point.data \in Integer
      <3>1. point.data \in Signed \cup Unsigned
        BY <2>2, Classes
      <3>2. \A n \in toInt64(v) \cup toUint64(v) :
               Narrowed(n, point.data) \in Values(point.data)
        BY <3>1, RequestIntegers, NarrowedType
      <3>3. \A n \in toInt64(v) \cup toUint64(v) :
               Registers(Narrowed(n, point.data)) \in Contents
        BY <2>1, <2>2, <3>2, ContentsByClass, RegistersType
      <3>4. CASE point.data \in Signed
        <4>1. Written(v)
                = {Registers(Narrowed(n, point.data)) : n \in toInt64(v)}
          BY <2>1, <3>4, WrittenByClass
        <4> QED
          BY <3>3, <4>1
      <3>5. CASE point.data \in Unsigned
        <4>1. Written(v)
                = {Registers(Narrowed(n, point.data)) : n \in toUint64(v)}
          BY <2>1, <3>5, WrittenByClass
        <4> QED
          BY <3>3, <4>1
      <3> QED
        BY <3>1, <3>4, <3>5
    <2>3. CASE point.data \in Floats
      <3>1. Contents = FloatValues(point.data)
        BY <2>1, <2>3, ContentsByClass
      <3>2. CASE point.data = "float32"
        <4>1. toFloat32(v) \subseteq Float32 \cup {NotFinite}
          BY NumbersAssumption DEF toFloat32, Nearest
        <4> QED
          BY <2>1, <3>1, <3>2, <4>1, WrittenByClass DEF FloatValues
      <3>3. CASE point.data = "float64"
        <4>1. toFloat64(v) \subseteq Numbers
          BY RequestFields, NumbersAssumption DEF toFloat64
        <4> QED
          BY <2>1, <3>1, <3>3, <4>1, WrittenByClass DEF FloatValues
      <3> QED
        BY <2>3, <3>2, <3>3 DEF Floats
    <2>4. CASE point.data \in {"bool", "string"}
      BY <2>1, <2>4, WrittenByClass
    <2> QED
      BY <2>2, <2>3, <2>4, PointFields
  <1>3. CASE point.register \notin {"coil", "holding_register"}
    BY <1>3, WrittenByRegister
  <1> QED
    BY <1>1, <1>2, <1>3

(* A float32 is the only one nearest to itself.                            *)
LEMMA NearestToItself ==
  ASSUME NEW x \in Float32
  PROVE  Nearest(x) = {x}
  <1>1. Float32 \subseteq Int
    BY NumbersAssumption
  <1>2. Distance(x, x) = 0
    BY <1>1 DEF Distance
  <1>3. \A g \in Float32 : 0 <= Distance(x, g) /\ (Distance(x, g) <= 0 => g = x)
    BY <1>1 DEF Distance
  <1>4. {f \in Float32 : \A g \in Float32 : Distance(x, f) <= Distance(x, g)}
          = {x}
    BY <1>2, <1>3
  <1>5. ~(\A f \in Float32 : f < x) /\ ~(\A f \in Float32 : x < f)
    BY <1>1
  <1> QED
    BY <1>4, <1>5 DEF Nearest

(* A number that the point's type can express is written as it is, unless  *)
(* its bytes are exchanged.                                                *)
LEMMA WrittenExactly ==
  ASSUME point \in Points, NEW v \in Requests, v.kind = "number",
         Representable(v.x), point.data \in Types16 => Kept(order)
  PROVE  Written(v) \subseteq {v.x}
  <1>1. /\ point.register \notin BitTypes
        /\ Written(v) = writeHoldingRegister(v)
        /\ v.x \in Contents
    BY WrittenByRegister DEF Representable, BitTypes
  <1>2. CASE point.data \in Integer
    <2>1. PICK n \in Values(point.data) : v.x = Unit * n
      BY <1>1, <1>2, ContentsByClass
    <2>2. point.data \in Signed \cup Unsigned /\ n \in Int
      BY <1>2, Classes, Interval
    <2>3. Truncated(v.x) = n
      BY <2>1, <2>2, TruncatedWhole
    <2>4. Narrowed(n, point.data) = n
      BY <2>1, <2>2, NarrowedType
    <2> Registers(n) = Unit * n
      BY <1>2, <2>1, RegistersType DEF Registers, Kept
    <2>5. CASE point.data \in Signed
      <3>1. n \in Values("int64")
        BY <2>1, <2>5, Widens
      <3>2. toInt64(v) = {n}
        BY <2>3, <3>1, FromFloatType DEF toInt64
      <3>3. writeHoldingRegister(v)
              = {Registers(Narrowed(k, point.data)) : k \in toInt64(v)}
        BY <2>5, WrittenByClass
      <3> QED
        BY <1>1, <2>1, <2>4, <3>2, <3>3
    <2>6. CASE point.data \in Unsigned
      <3>1. n \in Values("uint64")
        BY <2>1, <2>6, Widens
      <3>2. toUint64(v) = {n}
        BY <2>3, <3>1, FromFloatType DEF toUint64
      <3>3. writeHoldingRegister(v)
              = {Registers(Narrowed(k, point.data)) : k \in toUint64(v)}
        BY <2>6, WrittenByClass
      <3> QED
        BY <1>1, <2>1, <2>4, <3>2, <3>3
    <2> QED
      BY <2>2, <2>5, <2>6
  <1>3. CASE point.data = "float32"
    <2>1. v.x \in Int
      BY RequestFields
    <2>2. v.x \in FloatValues("float32")
      BY <1>1, <1>3, ContentsByClass DEF Floats
    <2>3. v.x \in Float32
      BY <2>1, <2>2, NumbersAssumption DEF FloatValues
    <2> QED
      BY <1>1, <1>3, <2>3, NearestToItself, WrittenByClass DEF toFloat32
  <1>4. CASE point.data = "float64"
    BY <1>1, <1>4, WrittenByClass DEF toFloat64
  <1>5. CASE point.data \in {"bool", "string"}
    BY <1>1, <1>5, WrittenByClass
  <1> QED
    BY <1>2, <1>3, <1>4, <1>5, PointFields DEF Floats

-----------------------------------------------------------------------------
(* What a poll may report.                                                 *)
LEMMA ScaledByClass ==
  ASSUME NEW x
  PROVE  /\ point.scale = Unit => Scaled(x) = {x}
         /\ point.data \in {"bool", "string"} => Scaled(x) = {x}
         /\ point.scale # Unit /\ point.data \in Floats =>
               Scaled(x) = FloatValues(point.data)
         /\ point.scale # Unit /\ point.data \in Integer =>
               \A y \in Scaled(x) :
                  \E r \in Rounded(Product(x)) :
                     \E n \in FromFloat(r, point.data) : y = Unit * n
  <1>1. /\ Floats \cap Integer = {}
        /\ {"bool", "string"} \cap Numeric = {}
        /\ Numeric = Integer \cup Floats
    BY DEF Floats, Integer, Types16, Numeric
  <1> QED
    BY <1>1 DEF Scaled

LEMMA ScaledType ==
  ASSUME point \in Points, NEW x \in Int \cup {NotFinite}
  PROVE  Scaled(x) \subseteq Int \cup {NotFinite}
  <1>1. Unit \in Nat \ {0}
    BY PointWriteAssumption
  <1>2. \A r : \A n \in FromFloat(r, point.data) : Unit * n \in Int
    BY <1>1, FromFloatType, Interval
  <1> QED
    BY <1>2, ScaledByClass, PointFields, FloatsAreNumbers

LEMMA DecodedType ==
  ASSUME point \in Points, held \in Contents, NEW o
  PROVE  Decoded(o) \in Int \cup {NotFinite}
  BY ContentsAreNumbers DEF Decoded

(* Between two whole numbers the fraction is lost to one of them.          *)
LEMMA TruncatedBetween ==
  ASSUME NEW k \in Int, NEW r \in Unit * k .. Unit * k + Unit
  PROVE  Truncated(r) \in {k, k + 1}
  <1>1. Unit \in Nat \ {0} /\ Unit * k \in Int /\ r \in Int
    <2>1. Unit \in Nat \ {0}
      BY PointWriteAssumption
    <2>2. Unit * k \in Int
      BY <2>1
    <2> QED
      BY <2>1, <2>2
  <1>2. CASE r = Unit * k
    BY <1>2, TruncatedWhole
  <1>3. CASE r = Unit * k + Unit
    <2>1. r = Unit * (k + 1)
      BY <1>1, <1>3
    <2> QED
      BY <2>1, TruncatedWhole
  <1>4. CASE r \in Unit * k + 1 .. Unit * k + Unit - 1
    <2>1. r \div Unit = k
      BY <1>1, <1>4
    <2>2. (-r) \div Unit = -(k + 1)
      <3>1. -r \in Unit * (-(k + 1)) + 1 .. Unit * (-(k + 1)) + Unit - 1
        BY <1>1, <1>4
      <3> DEFINE l == -(k + 1)
      <3> HIDE DEF l
      <3>2. l \in Int /\ Unit * l \in Int /\ -r \in Int
        BY <1>1 DEF l
      <3>3. -r \in Unit * l + 1 .. Unit * l + Unit - 1
        BY <3>1 DEF l
      <3>4. (-r) \div Unit = l
        BY <1>1, <3>2, <3>3
      <3> QED
        BY <3>4 DEF l
    <2> QED
      BY <2>1, <2>2 DEF Truncated
  <1> QED
    BY <1>1, <1>2, <1>3, <1>4

-----------------------------------------------------------------------------
(* As long as the last write stands, the registers hold what it wrote.     *)
SentInv == sent # None => held \in Written(sent)

(* A result that is not forgotten is one of the registers as they are.     *)
ReadInv ==
  /\ polled # None => polled \in Scaled(Decoded(deviceByteOrder))
  /\ single # None =>
        single = IF point.register \in BitTypes THEN Failed ELSE Decoded(order)

IInv == TypeOK /\ SentInv /\ ReadInv

LEMMA InitInv == Init => IInv
  BY NumbersAssumption DEF Init, IInv, TypeOK, SentInv, ReadInv

(* Point and byte order never change, and what can be held and written     *)
(* depends on nothing else.                                                *)
Fixed == point' = point /\ order' = order

LEMMA SameKind ==
  ASSUME Fixed
  PROVE  Contents' = Contents /\ \A v : Written(v)' = Written(v)
  BY DEF Fixed, Contents, Written, writeCoil, writeHoldingRegister, Registers,
         Exchanged

LEMMA SameReading ==
  ASSUME Fixed, held' = held
  PROVE  /\ Scaled(Decoded(deviceByteOrder))' = Scaled(Decoded(deviceByteOrder))
         /\ Decoded(order)' = Decoded(order)
  BY DEF Fixed, Scaled, Product, Decoded, deviceByteOrder

(* The step of a write, whichever of its outcomes it has.                  *)
LEMMA WriteKeepsInv ==
  ASSUME IInv, NEW v \in Requests, handleWritePoint(v)
  PROVE  IInv'
  <1>1. Fixed /\ point \in Points /\ order \in Orders /\ held \in Contents
    BY DEF handleWritePoint, Fixed, IInv, TypeOK
  <1>2. /\ Contents' = Contents
        /\ \A w : Written(w)' = Written(w)
        /\ point' = point /\ order' = order
    BY <1>1, SameKind DEF Fixed
  <1>3. Written(v) \subseteq Contents
    BY <1>1, WrittenType
  <1>4. CASE answer' = 400 /\ UNCHANGED <<held, sent, polled, single>>
    <2>1. TypeOK'
      BY <1>2, <1>4 DEF IInv, TypeOK
    <2>2. SentInv'
      BY <1>2, <1>4 DEF IInv, SentInv
    <2>3. ReadInv'
      BY <1>1, <1>2, <1>4, SameReading DEF IInv, ReadInv
    <2> QED
      BY <2>1, <2>2, <2>3 DEF IInv
  <1>5. CASE Acknowledged(v)
    <2>1. /\ held' \in Written(v)
          /\ answer' = 200
          /\ sent' = v /\ polled' = None /\ single' = None
      BY <1>5 DEF Acknowledged
    <2>2. TypeOK'
      BY <1>1, <1>2, <1>3, <2>1 DEF TypeOK
    <2>3. SentInv'
      BY <1>2, <2>1 DEF SentInv
    <2>4. ReadInv'
      BY <2>1 DEF ReadInv
    <2> QED
      BY <2>2, <2>3, <2>4 DEF IInv
  <1>6. CASE NotAcknowledged(v)
    <2>1. /\ held' \in {held} \cup Written(v)
          /\ answer' = 500
          /\ sent' = None /\ polled' = None /\ single' = None
      BY <1>6 DEF NotAcknowledged, Changed
    <2>2. TypeOK'
      BY <1>1, <1>2, <1>3, <2>1 DEF TypeOK
    <2> QED
      BY <2>1, <2>2 DEF IInv, SentInv, ReadInv
  <1> QED
    BY <1>4, <1>5, <1>6 DEF handleWritePoint

LEMMA NextKeepsInv == IInv /\ [Next]_vars => IInv'
  <1> SUFFICES ASSUME IInv, [Next]_vars PROVE IInv'
    OBVIOUS
  <1>1. CASE DeviceStores
    <2> /\ held' \in Contents /\ Fixed
        /\ sent' = None /\ polled' = None /\ single' = None
        /\ point' = point /\ order' = order /\ answer' = answer
      BY <1>1 DEF DeviceStores, Changed, Fixed
    <2>1. held' \in Contents'
      BY SameKind
    <2>2. TypeOK'
      BY <2>1 DEF IInv, TypeOK
    <2> QED
      BY <2>2 DEF IInv, SentInv, ReadInv
  <1>2. ASSUME NEW v \in Requests, handleWritePoint(v) PROVE IInv'
    BY <1>2, WriteKeepsInv
  <1>3. CASE Poll
    <2>1. /\ polled' \in Scaled(Decoded(deviceByteOrder))
          /\ Fixed /\ point' = point /\ order' = order
          /\ held' = held /\ answer' = answer
          /\ sent' = sent /\ single' = single
      BY <1>3 DEF Poll, Fixed
    <2>2. polled' \in Int \cup {NotFinite}
      BY <2>1, DecodedType, ScaledType DEF IInv, TypeOK
    <2>3. TypeOK'
      BY <2>1, <2>2, SameKind DEF IInv, TypeOK
    <2>4. SentInv'
      BY <2>1, SameKind DEF IInv, SentInv
    <2>5. ReadInv'
      BY <2>1, SameReading DEF IInv, ReadInv
    <2> QED
      BY <2>3, <2>4, <2>5 DEF IInv
  <1>4. CASE ReadSinglePoint
    <2>1. /\ single' = IF point.register \in BitTypes THEN Failed
                      ELSE Decoded(order)
          /\ Fixed /\ point' = point /\ order' = order
          /\ held' = held /\ answer' = answer
          /\ sent' = sent /\ polled' = polled
      BY <1>4 DEF ReadSinglePoint, Fixed
    <2>2. single' \in Int \cup {Failed, NotFinite}
      BY <2>1, DecodedType DEF IInv, TypeOK
    <2>3. TypeOK'
      BY <2>1, <2>2, SameKind DEF IInv, TypeOK
    <2>4. SentInv'
      BY <2>1, SameKind DEF IInv, SentInv
    <2>5. ReadInv'
      BY <2>1, SameReading DEF IInv, ReadInv
    <2> QED
      BY <2>3, <2>4, <2>5 DEF IInv
  <1>5. CASE UNCHANGED vars
    <2>1. /\ Fixed /\ point' = point /\ order' = order
          /\ held' = held /\ answer' = answer
          /\ sent' = sent /\ polled' = polled /\ single' = single
      BY <1>5 DEF vars, Fixed
    <2>2. TypeOK'
      BY <2>1, SameKind DEF IInv, TypeOK
    <2>3. SentInv'
      BY <2>1, SameKind DEF IInv, SentInv
    <2>4. ReadInv'
      BY <2>1, SameReading DEF IInv, ReadInv
    <2> QED
      BY <2>2, <2>3, <2>4 DEF IInv
  <1> QED
    BY <1>1, <1>2, <1>3, <1>4, <1>5 DEF Next

THEOREM Invariance == Spec => []IInv
  BY InitInv, NextKeepsInv, PTL DEF Spec

(* A write leaves a number of the point's type in its registers, and polls *)
(* and reads report numbers.                                               *)
THEOREM TypeCorrect == Spec => []TypeOK
  <1>1. IInv => TypeOK
    BY DEF IInv
  <1> QED
    BY <1>1, Invariance, PTL

(* A number that fits into the point's type and whose write was answered   *)
(* with 200 is what is read wherever writing and reading agree about the   *)
(* bytes, and a coil is on exactly if it was not zero, for every width of  *)
(* the types.                                                              *)
THEOREM WritesAreReadBack == Spec => []AcknowledgedNumberIsRead
  <1>1. IInv => AcknowledgedNumberIsRead
    <2> SUFFICES ASSUME IInv, sent # None PROVE AcknowledgedNumberIsRead
      BY DEF AcknowledgedNumberIsRead
    <2>1. /\ sent \in Requests /\ point \in Points
          /\ held \in Written(sent)
      BY DEF IInv, TypeOK, SentInv
    <2>2. ASSUME polled # None, point.scale = Unit
          PROVE  polled = Decoded(deviceByteOrder)
      BY <2>2, ScaledByClass DEF IInv, ReadInv
    <2>3. ASSUME NEW o, Kept(o) PROVE Decoded(o) = held
      BY <2>3 DEF Kept, Decoded
    <2>4. ASSUME sent.kind = "number", Representable(sent.x),
                 Kept(order) \/ Kept(deviceByteOrder)
          PROVE  held = sent.x
      <3>1. point.data \in Types16 => Kept(order)
        BY <2>4 DEF Kept, deviceByteOrder
      <3> QED
        BY <2>1, <2>4, <3>1, WrittenExactly
    <2>5. ASSUME Representable(sent.x), single # None
          PROVE  single = Decoded(order)
      BY <2>5 DEF IInv, ReadInv, Representable, BitTypes
    <2>6. ASSUME point.register = "coil", point.scale = Unit, polled # None
          PROVE  polled = 0 <=> sent.x = 0
      <3>1. held \in writeCoil(sent)
        BY <2>1, <2>6, WrittenByRegister
      <3>2. held = IF sent.x # 0 THEN Unit ELSE 0
        BY <3>1 DEF writeCoil
      <3>3. Unit # 0
        BY PointWriteAssumption
      <3>4. Decoded(deviceByteOrder) = held
        BY <2>1, <2>6 DEF Decoded, Points, BitTypes, RegisterTypes, Numeric,
                          Integer, Floats, Types16
      <3> QED
        BY <2>2, <2>6, <3>2, <3>3, <3>4
    <2> QED
      BY <2>2, <2>3, <2>4, <2>5, <2>6 DEF AcknowledgedNumberIsRead
  <1> QED
    BY <1>1, Invariance, PTL

-----------------------------------------------------------------------------
(* The order of multiples is that of the numbers.                          *)
LEMMA Cancel ==
  ASSUME NEW a \in Int, NEW k \in Int, Unit * a < Unit * k + Unit
  PROVE  a <= k
  <1>1. Unit \in Nat \ {0}
    BY PointWriteAssumption
  <1>2. ASSUME a >= k + 1 PROVE FALSE
    <2> DEFINE d == a - (k + 1)
    <2>1. d \in Nat
      BY <1>2
    <2>2. Unit * d >= 0
      BY <1>1, <2>1
    <2>3. Unit * a = Unit * k + Unit + Unit * d
      BY <1>1
    <2> HIDE DEF d
    <2> QED
      BY <1>1, <2>1, <2>2, <2>3
  <1> QED
    BY <1>2

(* A type has every number between two of its own.                         *)
LEMMA NoGaps ==
  ASSUME NEW type \in Signed \cup Unsigned, NEW a \in Values(type),
         NEW b \in Values(type), NEW k \in Int, a <= k, k <= b
  PROVE  k \in Values(type)
  <1> DEFINE s == Size(type)
             h == Size(type) \div 2
  <1>1. s \in Nat /\ h \in Nat
    BY Widths
  <1>2. CASE type \in Unsigned
    <2>1. Values(type) = 0..s - 1
      BY <1>2, Interval
    <2> HIDE DEF s
    <2> QED
      BY <1>1, <2>1
  <1>3. CASE type \in Signed
    <2>1. Values(type) = -h..h - 1
      BY <1>3, Interval
    <2> HIDE DEF h
    <2> QED
      BY <1>1, <2>1
  <1> QED
    BY <1>2, <1>3

(* A product between two values of the type, rounded as it may be, becomes *)
(* an integer less than one away.                                          *)
LEMMA RoundedClose ==
  ASSUME NEW type \in Signed \cup Unsigned, NEW p \in Int,
         NEW a \in Values(type), NEW b \in Values(type),
         p \in Unit * a .. Unit * b, NEW r \in Rounded(p),
         NEW n \in FromFloat(r, type)
  PROVE  Unit * n - p \in 1 - Unit .. Unit - 1
  <1> DEFINE k == p \div Unit
             l == k + 1
  <1>1. Unit \in Nat \ {0} /\ a \in Int /\ b \in Int
    BY PointWriteAssumption, Interval
  <1>2. k \in Int /\ Unit * k \in Int /\ Unit * k \in p - Unit + 1 .. p
    BY <1>1, Quotient
  <1>3. CASE p % Unit = 0
    <2>1. p = Unit * k
      BY <1>1, <1>3
    <2>2. r = Unit * k
      BY <1>3, <2>1 DEF Rounded
    <2> HIDE DEF k
    <2>3. Truncated(r) = k
      BY <1>2, <2>2, TruncatedWhole
    <2>4. Unit * a <= Unit * k /\ Unit * k <= Unit * b
      BY <1>1, <1>2, <2>1
    <2>5. a <= k /\ k <= b
      <3>1. Unit * a < Unit * k + Unit
        BY <1>1, <1>2, <2>4
      <3>2. Unit * k < Unit * b + Unit
        BY <1>1, <1>2, <2>4
      <3> QED
        BY <1>1, <1>2, <3>1, <3>2, Cancel
    <2>6. k \in Values(type)
      BY <1>2, <2>5, NoGaps
    <2>7. n = k
      BY <2>3, <2>6, FromFloatType
    <2> QED
      BY <1>1, <1>2, <2>1, <2>7
  <1>4. CASE p % Unit # 0
    <2>1. r \in Unit * k .. Unit * k + Unit
      BY <1>4 DEF Rounded
    <2>2. p # Unit * k
      <3>1. p % Unit = p - Unit * k
        BY <1>1
      <3> HIDE DEF k
      <3> QED
        BY <1>2, <1>4, <3>1
    <2> HIDE DEF k
    <2>3. Truncated(r) \in {k, l}
      BY <1>2, <2>1, TruncatedBetween
    <2>4. l \in Int /\ Unit * l = Unit * k + Unit
      BY <1>1, <1>2
    <2> HIDE DEF l
    <2>5. Unit * a < Unit * k + Unit /\ Unit * k < Unit * b
      BY <1>1, <1>2, <2>2
    <2>6. a <= k /\ k <= b /\ a <= l /\ l <= b
      <3>1. a <= k
        BY <1>1, <1>2, <2>5, Cancel
      <3>2. Unit * l < Unit * b + Unit
        BY <1>1, <1>2, <2>4, <2>5
      <3>3. l <= b
        BY <1>1, <2>4, <3>2, Cancel
      <3>4. l = k + 1
        BY DEF l
      <3> QED
        BY <1>1, <1>2, <3>1, <3>3, <3>4
    <2>7. k \in Values(type) /\ l \in Values(type)
      BY <1>2, <2>4, <2>6, NoGaps
    <2>8. n \in {k, l}
      BY <2>3, <2>7, FromFloatType
    <2> QED
      BY <1>1, <1>2, <2>2, <2>4, <2>8
  <1> QED
    BY <1>3, <1>4

(* Whatever the unit of the scale and however the product is rounded, a    *)
(* poll of an integer deviates by less than one from the exact product if  *)
(* the point's type has whole numbers on both sides of it.                 *)
THEOREM PollsScaleWithinOne == Spec => []ScaledWithinOne
  <1>1. IInv => ScaledWithinOne
    <2> SUFFICES ASSUME IInv, NEW n \in Values(point.data), polled # None,
                        held = Unit * n, point.data \in Integer,
                        point.data \in Types16 \/ order # "other",
                        NEW a \in Values(point.data),
                        NEW b \in Values(point.data),
                        n * point.scale \in Unit * a .. Unit * b
                 PROVE  polled - n * point.scale \in 1 - Unit .. Unit - 1
      BY DEF ScaledWithinOne
    <2> DEFINE p == n * point.scale
    <2>1. point \in Points /\ order \in Configured \cup {"", "other"}
      BY ONLY IInv, NumbersAssumption DEF IInv, TypeOK
    <2>2. /\ p \in Int
          /\ n * Unit = Unit * n
          /\ (Unit * n) * point.scale = Unit * p
          /\ Unit \in Nat \ {0} /\ n \in Int
      <3> DEFINE s == point.scale
      <3>1. Unit \in Nat \ {0}
        BY ONLY PointWriteAssumption
      <3>2. n \in Int
        BY ONLY n \in Values(point.data), Interval
      <3>3. s \in Int
        BY ONLY <2>1, PointFields
      <3> HIDE DEF s
      <3>4. n * s \in Int /\ n * Unit = Unit * n /\ (Unit * n) * s = Unit * (n * s)
        BY ONLY <3>1, <3>2, <3>3, Products
      <3> QED
        BY ONLY <3>1, <3>2, <3>4 DEF s
    <2>3. Decoded(deviceByteOrder) = held
      BY <2>1 DEF Decoded, deviceByteOrder, Configured
    <2>4. polled \in Scaled(held)
      BY <2>3 DEF IInv, ReadInv
    <2>5. CASE point.scale = Unit
      <3>1. polled = Unit * n
        BY <2>4, <2>5, ScaledByClass
      <3>2. p = Unit * n
        BY ONLY <2>2, <2>5
      <3> HIDE DEF p
      <3>3. polled = p
        BY ONLY <3>1, <3>2
      <3>4. polled - p \in 1 - Unit .. Unit - 1
        BY ONLY <2>2, <3>3
      <3> QED
        BY <3>4 DEF p
    <2>6. CASE point.scale # Unit
      <3>1. held * point.scale = Unit * p
        BY <2>2
      <3>2. Product(held) = p
        <4> HIDE DEF p
        <4> QED
          BY ONLY <2>2, <3>1, Multiple DEF Product
      <3>3. PICK r \in Rounded(p) : \E k \in FromFloat(r, point.data) :
                                       polled = Unit * k
        BY <2>4, <2>6, <3>2, ScaledByClass
      <3>4. PICK k \in FromFloat(r, point.data) : polled = Unit * k
        BY <3>3
      <3>5. point.data \in Signed \cup Unsigned
        BY Classes
      <3>6. p \in Unit * a .. Unit * b
        OBVIOUS
      <3> HIDE DEF p
      <3>7. polled - p \in 1 - Unit .. Unit - 1
        BY <2>2, <3>4, <3>5, <3>6, RoundedClose
      <3> QED
        BY <3>7 DEF p
    <2> QED
      BY <2>5, <2>6
  <1> QED
    BY <1>1, Invariance, PTL
=============================================================================
