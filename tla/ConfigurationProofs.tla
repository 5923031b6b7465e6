-------------------------- MODULE ConfigurationProofs --------------------------
(***************************************************************************)
(* What LoadPoints and ValidatePoints guarantee of a points file, for any  *)
(* rows and any number of them: the loop of ValidatePoints keeps in its    *)
(* two maps exactly what it has seen, so a list it accepts has every name  *)
(* and every address of a register type once.  Besides, the rows of a list *)
(* are well formed and a default length is long enough.                    *)
(***************************************************************************)
EXTENDS Configuration, TLAPS

Loaded == {parsePointRecord(row) : row \in Rows}

(* The list as it is loaded, and where in the files' way it may be.        *)
ListInv ==
    /\ points \in Seq(Loaded)
    /\ next \in 1..Len(points) + 1
    /\ phase \notin {"validate", "poll"} => next = 1
    /\ valid => next = Len(points) + 1 /\ phase = "poll"

(* The maps hold the points before next, which differ from each other.     *)
MapInv ==
    /\ nameMap = {points[k].Name : k \in 1..next - 1}
    /\ addressMap = {addressKey(points[k]) : k \in 1..next - 1}
    /\ \A j, k \in 1..next - 1 : j # k =>
          /\ points[j].Name # points[k].Name
          /\ addressKey(points[j]) # addressKey(points[k])

IInv == ListInv /\ MapInv

-----------------------------------------------------------------------------
LEMMA InitIInv == Init => IInv
<1> SUFFICES ASSUME Init PROVE IInv
  OBVIOUS
<1>1. ListInv
  BY DEF Init, ListInv
<1>2. MapInv
  <2>1. 1..next - 1 = {}
    BY DEF Init
  <2> QED  BY <2>1 DEF Init, MapInv
<1> QED  BY <1>1, <1>2 DEF Init, IInv

(* Steps that leave the list and its validation alone.                     *)
LEMMA OtherSteps ==
    ASSUME IInv, UNCHANGED <<header, points, next, nameMap, addressMap, valid>>,
           \/ phase' = phase
           \/ phase \notin {"validate", "poll"}
           \/ phase' = "poll"
    PROVE  IInv'
<1>1. ListInv'
  <2>1. Loaded' = Loaded
    BY DEF Loaded, parsePointRecord, Field
  <2>2. valid => phase = "poll"
    BY DEF IInv, ListInv
  <2>3. CASE phase' = phase
    BY <2>1, <2>3 DEF IInv, ListInv
  <2>4. CASE phase \notin {"validate", "poll"}
    BY <2>1, <2>2, <2>4 DEF IInv, ListInv
  <2>5. CASE phase' = "poll"
    BY <2>1, <2>5 DEF IInv, ListInv
  <2> QED  BY <2>3, <2>4, <2>5
<1>2. MapInv'
  BY DEF IInv, MapInv, addressKey
<1> QED  BY <1>1, <1>2 DEF IInv

(* While the list grows nothing of it has been looked at.                  *)
LEMMA RowStep ==
    ASSUME IInv, NEW row \in Rows, ReadRow(row)
    PROVE  IInv'
<1>1. CASE Parses(row)
  <2>1. /\ points' = Append(points, parsePointRecord(row))
        /\ UNCHANGED <<phase, header, next, nameMap, addressMap, valid>>
        /\ phase = "rows"
    BY <1>1 DEF ReadRow, validation
  <2>2. Loaded' = Loaded
    BY <2>1 DEF Loaded, parsePointRecord, Field
  <2>3. points' \in Seq(Loaded) /\ Len(points') = Len(points) + 1
    BY <2>1 DEF IInv, ListInv, Loaded
  <2>4. next = 1 /\ ~valid
    BY <2>1 DEF IInv, ListInv
  <2>5. ListInv'
    BY <2>1, <2>2, <2>3, <2>4 DEF IInv, ListInv
  <2>6. MapInv'
    <3>1. 1..next - 1 = {} /\ 1..next' - 1 = {}
      BY <2>1, <2>4
    <3>2. nameMap = {} /\ addressMap = {}
      BY <3>1 DEF IInv, MapInv
    <3> QED  BY <2>1, <3>1, <3>2 DEF MapInv
  <2> QED  BY <2>5, <2>6 DEF IInv
<1>2. CASE ~Parses(row)
  BY <1>2, OtherSteps DEF ReadRow, validation
<1> QED  BY <1>1, <1>2

(* A point enters the maps only if neither its name nor its address is     *)
(* there.                                                                  *)
LEMMA ValidateStep ==
    ASSUME IInv, ValidateNext
    PROVE  IInv'
<1>1. CASE Fresh(points[next])
  <2> DEFINE p == points[next]
  <2>1. /\ Enter(p) /\ next' = next + 1 /\ next <= Len(points)
        /\ UNCHANGED <<phase, header, points, valid>>
        /\ phase = "validate"
    BY <1>1 DEF ValidateNext, file
  <2>2. next \in 1..Len(points) /\ Len(points) \in Nat /\ ~valid
    BY <2>1 DEF IInv, ListInv
  <2>3. ListInv'
    <3>1. Loaded' = Loaded
      BY <2>1 DEF Loaded, parsePointRecord, Field
    <3> QED  BY <2>1, <2>2, <3>1 DEF IInv, ListInv
  <2>4. MapInv'
    <3>1. 1..next' - 1 = (1..next - 1) \cup {next} /\ next \notin 1..next - 1
      BY <2>1, <2>2
    <3>2. /\ nameMap' = {points[k].Name : k \in 1..next' - 1}
          /\ addressMap' = {addressKey(points[k]) : k \in 1..next' - 1}
      BY <2>1, <3>1 DEF IInv, MapInv, Enter
    <3>3. ASSUME NEW k \in 1..next - 1
          PROVE  points[k].Name # p.Name /\ addressKey(points[k]) # addressKey(p)
      BY <1>1 DEF IInv, MapInv, Fresh
    <3>4. \A j, k \in 1..next' - 1 : j # k =>
             /\ points[j].Name # points[k].Name
             /\ addressKey(points[j]) # addressKey(points[k])
      BY <3>1, <3>3 DEF IInv, MapInv
    <3> QED  BY <2>1, <3>2, <3>4 DEF MapInv, addressKey
  <2> QED  BY <2>3, <2>4 DEF IInv
<1>2. CASE ~Fresh(points[next])
  BY <1>2, OtherSteps DEF ValidateNext, file
<1> QED  BY <1>1, <1>2

LEMMA AcceptStep ==
    ASSUME IInv, ValidateEnds
    PROVE  IInv'
<1>1. /\ UNCHANGED <<header, points, next, nameMap, addressMap>>
      /\ phase' = "poll" /\ next = Len(points) + 1
  BY DEF ValidateEnds, file
<1>2. Loaded' = Loaded
  BY <1>1 DEF Loaded, parsePointRecord, Field
<1>3. ListInv'
  BY <1>1, <1>2 DEF IInv, ListInv
<1>4. MapInv'
  BY <1>1 DEF IInv, MapInv, addressKey
<1> QED  BY <1>3, <1>4 DEF IInv

LEMMA Inductive == IInv /\ [Next]_vars => IInv'
<1> SUFFICES ASSUME IInv, [Next]_vars PROVE IInv'
  OBVIOUS
<1>1. CASE LoadConfig
  BY <1>1, OtherSteps DEF LoadConfig, file, validation
<1>2. CASE ReadHeader
  BY <1>2, OtherSteps DEF ReadHeader, file, validation
<1>3. CASE FileEnds
  BY <1>3, OtherSteps DEF FileEnds, file, validation
<1>4. CASE \E row \in Rows : ReadRow(row)
  BY <1>4, RowStep
<1>5. CASE ValidateNext
  BY <1>5, ValidateStep
<1>6. CASE ValidateEnds
  BY <1>6, AcceptStep
<1>7. CASE UNCHANGED vars
  BY <1>7, OtherSteps DEF vars, file, validation
<1> QED
  BY <1>1, <1>2, <1>3, <1>4, <1>5, <1>6, <1>7 DEF Next

LEMMA IInvUnambiguous == IInv => AcceptedListIsUnambiguous
<1> SUFFICES ASSUME IInv, valid, NEW j \in DOMAIN points, NEW k \in DOMAIN points,
                    j # k
             PROVE  /\ points[j].Name # points[k].Name
                    /\ points[j].RegisterType = points[k].RegisterType
                           => points[j].Address # points[k].Address
  BY DEF AcceptedListIsUnambiguous
<1>1. j \in 1..next - 1 /\ k \in 1..next - 1
  BY DEF IInv, ListInv
<1> QED  BY <1>1 DEF IInv, MapInv, addressKey

(* ValidatePoints: an accepted list has every name once, and every address *)
(* of a register type once, however many rows the file has.                *)
THEOREM AcceptedIsUnambiguous == Spec => []AcceptedListIsUnambiguous
<1> QED  BY IInvUnambiguous, InitIInv, Inductive, PTL DEF Spec

-----------------------------------------------------------------------------
(* A loaded point has a type, and the default of that type if its row has  *)
(* no length.                                                              *)
DefaultInv ==
    /\ \A k \in DOMAIN points : points[k].DataType \in DOMAIN Words
    /\ defaulted \subseteq DOMAIN points
    /\ \A k \in defaulted : points[k].Length = DefaultLength(points[k].DataType)

(* Reading needs no more registers of any type than its default length.    *)
LEMMA DefaultCoversType ==
    ASSUME NEW t \in DOMAIN Words
    PROVE  Words[t] <= DefaultLength(t)
<1>1. t \in {"bool", "int16", "uint16", "int32", "uint32", "float32", "float64",
            "string"}
  BY DEF Words
<1>2. CASE t \in {"bool", "int16", "uint16"}
  BY <1>2 DEF Words, DefaultLength
<1>3. CASE t \in {"int32", "uint32", "float32"}
  BY <1>3 DEF Words, DefaultLength
<1>4. CASE t = "float64"
  BY <1>4 DEF Words, DefaultLength
<1>5. CASE t = "string"
  BY <1>5 DEF Words, DefaultLength
<1> QED  BY <1>1, <1>2, <1>3, <1>4, <1>5

(* A row that parses gives its point a type, from its own cell.            *)
LEMMA RowHasType ==
    ASSUME NEW row \in Rows, Parses(row)
    PROVE  /\ parsePointRecord(row).DataType \in DOMAIN Words
           /\ Field(row, "length") = Empty =>
                 parsePointRecord(row).Length
                     = DefaultLength(parsePointRecord(row).DataType)
<1>1. Field(row, "data_type") # Empty /\ Field(row, "data_type") # Bad
  BY DEF Parses, Columns
<1>2. Field(row, "data_type") = row.data_type
  BY <1>1 DEF Field
<1>3. row.data_type \in DOMAIN Words
  BY <1>1, <1>2, RowsAssumption
<1> QED  BY <1>2, <1>3 DEF parsePointRecord, Or

LEMMA DefaultRowStep ==
    ASSUME IInv, DefaultInv, NEW row \in Rows, ReadRow(row)
    PROVE  DefaultInv'
<1>1. CASE Parses(row)
  <2>1. /\ points' = Append(points, parsePointRecord(row))
        /\ defaulted' = IF Field(row, "length") = Empty
                        THEN defaulted \cup {Len(points) + 1}
                        ELSE defaulted
    BY <1>1 DEF ReadRow
  <2>2. points \in Seq(Loaded) /\ parsePointRecord(row) \in Loaded
    BY DEF IInv, ListInv, Loaded
  <2>3. /\ Len(points) \in Nat /\ DOMAIN points = 1..Len(points)
        /\ DOMAIN points' = 1..Len(points) + 1
        /\ \A k \in DOMAIN points : points'[k] = points[k]
        /\ points'[Len(points) + 1] = parsePointRecord(row)
    BY <2>1, <2>2
  <2>4. \A k \in DOMAIN points' : k \in DOMAIN points \/ k = Len(points) + 1
    BY <2>3
  <2>5. \A k \in DOMAIN points' : points'[k].DataType \in DOMAIN Words
    BY <1>1, <2>3, <2>4, RowHasType DEF DefaultInv
  <2>6. defaulted' \subseteq DOMAIN points'
    BY <2>1, <2>3 DEF DefaultInv
  <2>7. ASSUME NEW k \in defaulted'
        PROVE  points'[k].Length = DefaultLength(points'[k].DataType)
    <3>1. CASE k \in defaulted
      BY <2>3, <3>1 DEF DefaultInv
    <3>2. CASE k \notin defaulted
      <4>1. k = Len(points) + 1 /\ Field(row, "length") = Empty
        BY <2>1, <3>2
      <4> QED  BY <1>1, <2>3, <4>1, RowHasType
    <3> QED  BY <3>1, <3>2
  <2> QED  BY <2>5, <2>6, <2>7 DEF DefaultInv
<1>2. CASE ~Parses(row)
  BY <1>2 DEF ReadRow, DefaultInv
<1> QED  BY <1>1, <1>2

LEMMA DefaultInductive == IInv /\ DefaultInv /\ [Next]_vars => DefaultInv'
<1> SUFFICES ASSUME IInv, DefaultInv, [Next]_vars PROVE DefaultInv'
  OBVIOUS
<1>1. CASE \E row \in Rows : ReadRow(row)
  BY <1>1, DefaultRowStep
<1>2. CASE \/ LoadConfig \/ ReadHeader \/ FileEnds \/ ValidateNext
           \/ ValidateEnds \/ UNCHANGED vars
  <2>1. UNCHANGED <<points, defaulted>>
    BY <1>2 DEF LoadConfig, ReadHeader, FileEnds, ValidateNext, ValidateEnds,
                vars, file
  <2> QED  BY <2>1 DEF DefaultInv
<1> QED  BY <1>1, <1>2 DEF Next

(* parsePointRecord: a point whose row has no length gets enough registers *)
(* for the poll to decode it and for a write to stay inside.               *)
THEOREM DefaultsAreLongEnough == Spec => []DefaultLengthFits
<1>1. Init => DefaultInv
  BY DEF Init, DefaultInv
<1>2. DefaultInv => DefaultLengthFits
  BY DefaultCoversType DEF DefaultInv, DefaultLengthFits, Readable
<1> QED  BY <1>1, <1>2, InitIInv, Inductive, DefaultInductive, PTL DEF Spec

-----------------------------------------------------------------------------
(* The types.  What parsePointRecord makes of a row that parses.           *)
LEMMA RowIsTyped ==
    ASSUME NEW row \in Rows, Parses(row)
    PROVE  LET p == parsePointRecord(row) IN
           /\ p.RegisterType \in RegisterTypes /\ p.DataType \in DOMAIN Words
           /\ {p.Address, p.Length} \subseteq Nat /\ p.Scale \in Int
           /\ p.Name # Empty
<1> DEFINE p == parsePointRecord(row)
<1>1. \A c \in Columns : Field(row, c) # Bad
  BY DEF Parses
<1>2. /\ Field(row, "name") # Empty /\ Field(row, "address") # Empty
      /\ p.DataType \in DOMAIN Words
  BY RowHasType DEF Parses
<1>3. /\ Field(row, "address") \in Nat
      /\ Field(row, "length") = Empty \/ Field(row, "length") \in Nat
      /\ Field(row, "scale") = Empty \/ Field(row, "scale") \in Int
      /\ \/ Field(row, "register_type") = Empty
         \/ Field(row, "register_type") \in RegisterTypes
  BY <1>1, <1>2, RowsAssumption DEF Field, Columns
<1>4. Field(row, "length") = Empty => p.Length \in Nat
  <2>1. \A t \in DOMAIN Words : DefaultLength(t) \in Nat
    <3> TAKE t \in DOMAIN Words
    <3>1. t \in {"int16", "uint16", "bool"} \/ t \in {"int32", "uint32", "float32"}
          \/ t = "float64" \/ t = "string"
      BY DEF Words
    <3> QED  BY <3>1 DEF DefaultLength
  <2> QED  BY <1>2, <2>1, RowHasType
<1>5. Field(row, "length") # Empty => p.Length \in Nat
  BY <1>3 DEF parsePointRecord, Or
<1>6. /\ p.Name = Field(row, "name") /\ p.Address = Field(row, "address")
      /\ p.Scale = Or(Field(row, "scale"), 1)
      /\ p.RegisterType = Or(Field(row, "register_type"), "holding_register")
  BY DEF parsePointRecord
<1>7. p.Scale \in Int /\ p.RegisterType \in RegisterTypes
  BY <1>3, <1>6 DEF Or, RegisterTypes, WordTypes
<1> QED  BY <1>2, <1>3, <1>4, <1>5, <1>6, <1>7

LEMMA TypeInductive == IInv /\ IInv' /\ TypeOK /\ [Next]_vars => TypeOK'
<1> SUFFICES ASSUME IInv, IInv', TypeOK, [Next]_vars PROVE TypeOK'
  OBVIOUS
<1>1. next' \in 1..Len(points') + 1
  BY DEF IInv, ListInv
<1>2. ASSUME NEW row \in Rows, ReadRow(row), Parses(row)
      PROVE  TypeOK'
  <2> DEFINE p == parsePointRecord(row)
  <2>1. points \in Seq(Loaded) /\ p \in Loaded
    BY DEF IInv, ListInv, Loaded
  <2>2. /\ points' = Append(points, p) /\ Len(points) < MaxRows
        /\ defaulted' \subseteq defaulted \cup {Len(points) + 1}
        /\ UNCHANGED <<phase, valid>>
    BY <1>2 DEF ReadRow, validation
  <2>3. /\ p.RegisterType \in RegisterTypes /\ p.DataType \in DOMAIN Words
        /\ {p.Address, p.Length} \subseteq Nat /\ p.Scale \in Int
        /\ p.Name # Empty
    BY <1>2, RowIsTyped
  <2> HIDE DEF p
  <2>4. /\ Len(points') = Len(points) + 1 /\ Len(points) \in Nat
        /\ DOMAIN points' = DOMAIN points \cup {Len(points) + 1}
        /\ \A k \in DOMAIN points' :
              \/ k \in DOMAIN points /\ points'[k] = points[k]
              \/ points'[k] = p
    BY <2>1, <2>2
  <2>5. Len(points') <= MaxRows
    BY <2>2, <2>4, ConfigurationAssumption
  <2> QED  BY <1>1, <2>2, <2>3, <2>4, <2>5 DEF TypeOK
<1>3. ASSUME UNCHANGED <<points, defaulted>>, valid' \in BOOLEAN,
             phase' \in {"refused", "header", "missing", "rows", "validate",
                         "poll"} \cup {phase}
      PROVE  TypeOK'
  BY <1>1, <1>3 DEF TypeOK
<1>4. CASE LoadConfig \/ ReadHeader \/ FileEnds \/ UNCHANGED vars
  BY <1>3, <1>4 DEF LoadConfig, ReadHeader, FileEnds, vars, file, validation, TypeOK
<1>5. CASE \E row \in Rows : ReadRow(row)
  BY <1>2, <1>3, <1>5 DEF ReadRow, validation, TypeOK
<1>6. CASE ValidateNext \/ ValidateEnds
  BY <1>3, <1>6 DEF ValidateNext, ValidateEnds, file, TypeOK
<1> QED  BY <1>4, <1>5, <1>6 DEF Next

(* A loaded point has a name, types the poll and the write know, and a     *)
(* number for its address, its length and its scale.                       *)
THEOREM TypeCorrect == Spec => []TypeOK
<1>1. Init => TypeOK
  <2> SUFFICES ASSUME Init PROVE TypeOK
    OBVIOUS
  <2>1. Len(points) = 0 /\ DOMAIN points = {}
    BY DEF Init
  <2>2. Len(points) <= MaxRows
    BY <2>1, ConfigurationAssumption
  <2>3. next \in 1..Len(points) + 1
    BY <2>1 DEF Init
  <2> QED  BY <2>1, <2>2, <2>3 DEF Init, TypeOK
<1> QED  BY <1>1, InitIInv, Inductive, TypeInductive, PTL DEF Spec

=============================================================================
