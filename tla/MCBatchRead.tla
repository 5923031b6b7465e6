----------------------------- MODULE MCBatchRead -----------------------------
(* Model-checking instances of BatchRead.                                  *)
EXTENDS BatchRead

CONSTANT MaxPoints   \* bound: the length of the lists

MCMaxRead == [coil |-> 2, discrete_input |-> 2,
              input_register |-> 3, holding_register |-> 2]

Shape(type, data, len, a) ==
    [RegisterType |-> type, DataType |-> data, Length |-> len, Address |-> a]

(* Every width a request can have, lengths too short and too long for the  *)
(* data type, zero lengths, and addresses up to the last.                  *)
Shapes ==
    {Shape("holding_register", "int16", 1, a) : a \in 0..4}
    \cup {Shape("holding_register", "float32", 2, a) : a \in {0, 2, 4}}
    \cup {Shape("holding_register", "string", 3, a) : a \in {0, 1, 3}}
    \cup {Shape("holding_register", "uint16", 2, 2),
          Shape("holding_register", "int32", 1, 1),
          Shape("holding_register", "bool", 0, 1),
          Shape("input_register", "float64", 4, 0)}
    \cup {Shape("coil", "bool", 1, a) : a \in 1..2}

(* The rows of a list are named by their position.                         *)
Named(s) ==
    [k \in DOMAIN s |->
        [Name |-> k, Address |-> s[k].Address, Length |-> s[k].Length,
         RegisterType |-> s[k].RegisterType, DataType |-> s[k].DataType]]

MCPointLists ==
    UNION {{Named(s) : s \in [1..len -> Shapes]} : len \in 1..MaxPoints}
=============================================================================
