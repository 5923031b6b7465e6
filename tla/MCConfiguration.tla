--------------------------- MODULE MCConfiguration ---------------------------
(* Model-checking instance of Configuration.                              *)
EXTENDS Configuration

Setting(port, brokers) ==
    [named |-> TRUE, port |-> port, enable |-> TRUE, brokers |-> brokers,
     topic |-> TRUE]

(* Devices that are started, with and without Kafka, and what Validate     *)
(* refuses.                                                                *)
FewSettings ==
    {Setting(502, 1),
     [Setting(502, 0) EXCEPT !.enable = FALSE],
     [Setting(502, 1) EXCEPT !.named = FALSE],
     [Setting(502, 1) EXCEPT !.topic = FALSE],
     Setting(0, 1), Setting(65536, 1), Setting(502, 0)}

Row(name, padded, address, data, register, length, scale) ==
    [name |-> [text |-> name, padded |-> padded], address |-> address,
     data_type |-> data, register_type |-> register, length |-> length,
     scale |-> scale]

(* Rows that meet in name or in address, one of them with spaces.          *)
MeetingRows ==
    {Row(n, FALSE, a, "int16", r, Empty, 1) :
        n \in {"a", "b", "c"}, a \in {0, 1}, r \in {"coil", Empty}}
    \cup {Row("a", TRUE, 0, "int16", Empty, 1, 1)}

(* Every data type without a length, and lengths that are too short.       *)
TypedRows ==
    {Row("d", FALSE, 2, t, "input_register", Empty, 1) : t \in DOMAIN Words}
    \cup {Row("d", FALSE, 2, "float32", "holding_register", l, 1) : l \in {0, 1}}

(* Rows that are refused, by the parser and by ValidatePoints.             *)
BadRows ==
    {Row(Empty, FALSE, 3, "bool", "coil", 1, 1),
     Row("d", FALSE, Bad, "bool", "coil", 1, 1),
     Row("e", FALSE, 3, Empty, "coil", 1, 1),
     Row("e", FALSE, 3, "bool", Bad, 1, 1),
     Row("e", FALSE, 3, "bool", "coil", Bad, 1),
     Row("e", FALSE, 3, "bool", "coil", 1, 0)}

AllRows == MeetingRows \cup TypedRows \cup BadRows
=============================================================================
