---------------------------- MODULE Configuration ----------------------------
(***************************************************************************)
(* How one device and its points get from the files to the poll:           *)
(* LoadConfig (config/config.go), LoadPoints and ValidatePoints            *)
(* (config/points.go).  A step is one of these calls or one iteration of   *)
(* its loop.  A cell of the points file is what TrimSpace, ToLower and the *)
(* parser of its column make of it; only names are kept with the spaces    *)
(* around them.  The requests of a poll are the subject of BatchRead, the  *)
(* bytes of a value that of ByteOrder.                                     *)
(***************************************************************************)
EXTENDS Integers, Sequences

CONSTANTS Settings,     \* what config.toml may say of the device and of Kafka
          Rows,         \* what a row of the points file may hold
          MaxRows,      \* bound: rows of the file
          MaxPort,      \* 65535
          Empty,        \* a cell without a text
          Bad           \* a cell its column's parser refuses

ASSUME ConfigurationAssumption ==
    /\ MaxRows \in Nat \ {0}
    /\ MaxPort \in Nat

Columns == {"name", "address", "data_type", "register_type", "length", "scale"}
WordTypes == {"input_register", "holding_register"}
RegisterTypes == WordTypes \cup {"coil", "discrete_input"}

(* Registers a value is made of: at least so many must a point have for    *)
(* parseRegistersForPoint, and writeHoldingRegister writes so many.        *)
Words == [bool |-> 1, int16 |-> 1, uint16 |-> 1, int32 |-> 2, uint32 |-> 2,
          float32 |-> 2, float64 |-> 4, string |-> 0]

ASSUME RowsAssumption ==
    \A row \in Rows :
        /\ row.name.text # Bad
        /\ row.data_type \in DOMAIN Words \cup {Empty, Bad}
        /\ row.register_type \in RegisterTypes \cup {Empty, Bad}
        /\ {row.address, row.length} \subseteq Nat \cup {Empty, Bad}
        /\ row.scale \in Int \cup {Empty, Bad}

(* What the decoder of config.toml makes of a file, right or wrong.        *)
ASSUME SettingsAssumption ==
    Settings \subseteq
        [named : BOOLEAN, port : Int, enable : BOOLEAN, brokers : Nat,
         topic : BOOLEAN]

VARIABLES
    config,    \* the configuration
    phase,     \* what is done next, or refused or missing: it goes no further
    header,    \* the columns of the points file
    points,    \* the points loaded
    defaulted, \* history: the points that got the default length
    next,      \* the point ValidatePoints looks at
    nameMap, addressMap,   \* its maps
    valid      \* did it accept the list

file == <<header, points, defaulted>>
validation == <<next, nameMap, addressMap, valid>>
vars == <<config, phase, file, validation>>

Init ==
    /\ config \in Settings
    /\ phase = "config"
    /\ header \in SUBSET Columns
    /\ points = <<>> /\ defaulted = {}
    /\ next = 1 /\ nameMap = {} /\ addressMap = {} /\ valid = FALSE

-----------------------------------------------------------------------------
(* Validate.  The default limits of a producer's batches, like those of    *)
(* the logger, are left out.                                               *)
Accepts(c) ==
    /\ c.named /\ c.port \in 1..MaxPort
    /\ c.enable => c.brokers > 0 /\ c.topic

LoadConfig ==
    /\ phase = "config"
    /\ phase' = IF Accepts(config) THEN "header" ELSE "refused"
    /\ UNCHANGED <<config, file, validation>>

-----------------------------------------------------------------------------
(* LoadPoints.                                                             *)
requiredHeaders == {"name", "address", "data_type", "register_type"}

ReadHeader ==
    /\ phase = "header"
    /\ phase' = IF requiredHeaders \subseteq header THEN "rows" ELSE "missing"
    /\ UNCHANGED <<config, file, validation>>

TrimSpace(cell) == cell.text

(* fieldMap: a column the header does not have is like an empty cell.      *)
Field(row, c) ==
    IF c \notin header THEN Empty
    ELSE IF c = "name" THEN TrimSpace(row.name)
    ELSE row[c]

Parses(row) ==
    /\ \A c \in {"name", "address", "data_type"} : Field(row, c) # Empty
    /\ \A c \in Columns : Field(row, c) # Bad

\* Mutant: a float64 gets the length of a float32.
DefaultLength_Two(type) ==
    CASE type \in {"int16", "uint16", "bool"} -> 1
      [] type = "string" -> 10
      [] OTHER -> 2

DefaultLength(type) ==
    CASE type \in {"int16", "uint16", "bool"} -> 1
      [] type \in {"int32", "uint32", "float32"} -> 2
      [] type = "float64" -> 4
      [] type = "string" -> 10

Or(cell, otherwise) == IF cell = Empty THEN otherwise ELSE cell

\* Mutant: the register type has no default.
parsePointRecord_NoRegisterType(row) ==
    [Name         |-> Field(row, "name"),
     Address      |-> Field(row, "address"),
     DataType     |-> Field(row, "data_type"),
     RegisterType |-> Field(row, "register_type"),
     Length       |-> Or(Field(row, "length"), DefaultLength(row.data_type)),
     Scale        |-> Or(Field(row, "scale"), 1)]

parsePointRecord(row) ==
    [Name         |-> Field(row, "name"),
     Address      |-> Field(row, "address"),
     DataType     |-> Field(row, "data_type"),
     RegisterType |-> Or(Field(row, "register_type"), "holding_register"),
     Length       |-> Or(Field(row, "length"), DefaultLength(row.data_type)),
     Scale        |-> Or(Field(row, "scale"), 1)]

ReadRow(row) ==
    /\ phase = "rows" /\ Len(points) < MaxRows
    /\ IF Parses(row)
       THEN /\ points' = Append(points, parsePointRecord(row))
            /\ defaulted' = IF Field(row, "length") = Empty
                            THEN defaulted \cup {Len(points) + 1}
                            ELSE defaulted
            /\ UNCHANGED phase
       ELSE /\ phase' = "missing"
            /\ UNCHANGED <<points, defaulted>>
    /\ UNCHANGED <<config, header, validation>>

FileEnds ==
    /\ phase = "rows"
    /\ phase' = IF points = <<>> THEN "missing" ELSE "validate"
    /\ UNCHANGED <<config, file, validation>>

-----------------------------------------------------------------------------
(* ValidatePoints.  The list is polled whatever the verdict, for Start     *)
(* loads the file again and does not ask.                                  *)
addressKey(p) == <<p.Address, p.RegisterType>>

Fresh(p) ==
    /\ p.Name \notin nameMap
    /\ addressKey(p) \notin addressMap
    /\ p.Length > 0 /\ p.Scale # 0

\* Mutant: the map of addresses starts anew with every point.
Enter_LastAddress(p) ==
    /\ nameMap' = nameMap \cup {p.Name}
    /\ addressMap' = {addressKey(p)}

Enter(p) ==
    /\ nameMap' = nameMap \cup {p.Name}
    /\ addressMap' = addressMap \cup {addressKey(p)}

ValidateNext ==
    /\ phase = "validate" /\ next <= Len(points)
    /\ IF Fresh(points[next])
       THEN Enter(points[next]) /\ next' = next + 1 /\ UNCHANGED phase
       ELSE phase' = "poll" /\ UNCHANGED <<next, nameMap, addressMap>>
    /\ UNCHANGED <<config, file, valid>>

ValidateEnds ==
    /\ phase = "validate" /\ next = Len(points) + 1
    /\ valid' = TRUE
    /\ phase' = "poll"
    /\ UNCHANGED <<config, file, next, nameMap, addressMap>>

Next ==
    \/ LoadConfig \/ ReadHeader \/ FileEnds
    \/ \E row \in Rows : ReadRow(row)
    \/ ValidateNext \/ ValidateEnds

Spec == Init /\ [][Next]_vars

-----------------------------------------------------------------------------
TypeOK ==
    /\ phase \in {"config", "refused", "header", "missing", "rows", "validate",
                  "poll"}
    /\ Len(points) <= MaxRows
    /\ \A k \in DOMAIN points :
          /\ points[k].RegisterType \in RegisterTypes
          /\ points[k].DataType \in DOMAIN Words
          /\ {points[k].Address, points[k].Length} \subseteq Nat
          /\ points[k].Scale \in Int
          /\ points[k].Name # Empty
    /\ defaulted \subseteq DOMAIN points
    /\ next \in 1..Len(points) + 1
    /\ valid \in BOOLEAN

(* Two points of an accepted list differ in name and, within a register    *)
(* type, in address, also when they differ in the file only by spaces: the *)
(* registry and the message know a point by its name alone.                *)
AcceptedListIsUnambiguous ==
    valid => \A j, k \in DOMAIN points : j # k =>
        /\ points[j].Name # points[k].Name
        /\ points[j].RegisterType = points[k].RegisterType
               => points[j].Address # points[k].Address

(* The registers, or bits, of the point are as many as its type needs.     *)
Readable(p) == Words[p.DataType] <= p.Length

(* The length a point gets by default (parsePointRecord) is enough for the *)
(* poll to decode it (parseRegistersForPoint), and a write, which does not *)
(* look at the length, stays inside it (writeHoldingRegister).             *)
DefaultLengthFits ==
    \A k \in defaulted : Readable(points[k])
=============================================================================
