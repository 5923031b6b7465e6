------------------------------ MODULE BatchRead ------------------------------
(***************************************************************************)
(* One poll of a device (CollectPoints of pkg/modbus/collector.go, after   *)
(* the connection is there): the points are grouped, every group is        *)
(* sorted, read in one request, in sub-batches or register by register,    *)
(* and cut into the values of its points.  A step is one iteration of a    *)
(* loop.  A point is named by its row.  Addresses and lengths are uint16,  *)
(* so they count modulo AddressSpace.  The content of a register is the    *)
(* pair of its type and its address: what matters is which register a      *)
(* value is made of.                                                       *)
(***************************************************************************)
EXTENDS Naturals, Sequences

CONSTANTS AddressSpace,  \* 2^16, scaled down
          MaxRead,       \* the limit of one request, per register type
          PointLists     \* the lists LoadPoints may have returned

BitTypes == {"coil", "discrete_input"}
WordTypes == {"input_register", "holding_register"}
RegisterTypes == BitTypes \cup WordTypes

UInt16 == 0..(AddressSpace - 1)

(* Registers a value of each data type is made of.  A bool, int16 or       *)
(* uint16 takes the first register without a look at the length.           *)
Words == [bool |-> 1, int16 |-> 1, uint16 |-> 1, int32 |-> 2, uint32 |-> 2,
          float32 |-> 2, float64 |-> 4, string |-> 0]
Unchecked == {"bool", "int16", "uint16"}

Points == [Name : Nat, Address : UInt16, Length : UInt16,
           RegisterType : RegisterTypes, DataType : DOMAIN Words]

ASSUME BatchReadAssumption ==
    /\ AddressSpace \in Nat \ {0}
    /\ MaxRead \in [RegisterTypes -> UInt16 \ {0}]
    /\ PointLists \subseteq Seq(Points) \ {<<>>}
    /\ \A ps \in PointLists : \A k \in DOMAIN ps : ps[k].Name = k

VARIABLES
    points,      \* the list handed to CollectPoints
    phase,       \* the loop the poll is in
    n,           \* points grouped so far
    groups,      \* batchGroups
    g,           \* the group at hand
    i, j,        \* the counters of the inner loops
    registers,   \* what has been read of the group
    start,       \* startAddress of the next sub-batch
    remaining,   \* remainingLength of the split
    values,      \* the values collected so far
    request,     \* history: the last request handed to the client
    failed       \* history: the groups a request of which failed

vars == <<points, phase, n, groups, g, i, j, registers, start, remaining,
          values, request, failed>>

Requests == [type : RegisterTypes, addr : UInt16, len : UInt16]
NoRequest == [type |-> "coil", addr |-> 0, len |-> 0]

Group == groups[g]
Plus(a, b) == (a + b) % AddressSpace

-----------------------------------------------------------------------------
(* The client and the device.  The client refuses an empty request and one *)
(* that runs past the last address; the device may refuse any.             *)
Legal(r) == r.len > 0 /\ r.addr + r.len <= AddressSpace

Content(type, a, len) == [k \in 1..len |-> <<type, Plus(a, k - 1)>>]

Answered(r) ==
    /\ Legal(r)
    /\ request' = r
    /\ registers' = registers \o Content(r.type, r.addr, r.len)
    /\ UNCHANGED failed

Refused(r) ==
    /\ request' = r
    /\ failed' = failed \cup {g}

-----------------------------------------------------------------------------
Init ==
    /\ points \in PointLists
    /\ phase = "group"
    /\ n = 0
    /\ groups = <<>>
    /\ g = 1
    /\ i = 1
    /\ j = 1
    /\ registers = <<>>
    /\ start = 0
    /\ remaining = 0
    /\ values = <<>>
    /\ request = NoRequest
    /\ failed = {}

(* groupPointsByRegisterType: the next point joins the first group of its  *)
(* type whose last point ends where it begins, or opens a group.           *)
Continues(grp, p) ==
    LET last == grp.Points[Len(grp.Points)]
    IN  /\ grp.RegisterType = p.RegisterType
        /\ Plus(last.Address, last.Length) = p.Address

\* Mutant: the sum of the lengths is not a uint16.
Merge_Unbounded(grp, p) ==
    [grp EXCEPT !.Points = Append(@, p), !.TotalLength = @ + p.Length]

\* Mutant: a group grows by one register per point.
Merge_CountsPoints(grp, p) ==
    [grp EXCEPT !.Points = Append(@, p), !.TotalLength = Plus(@, 1)]

Merge(grp, p) ==
    [grp EXCEPT !.Points = Append(@, p),
                !.TotalLength = Plus(@, p.Length)]

NewGroup(p) ==
    [RegisterType |-> p.RegisterType, StartAddress |-> p.Address,
     Points |-> <<p>>, TotalLength |-> p.Length]

GroupPoint ==
    /\ phase = "group"
    /\ n < Len(points)
    /\ LET p == points[n + 1]
           fit == {k \in 1..Len(groups) : Continues(groups[k], p)}
       IN  \/ \E k \in fit :
                 /\ \A m \in fit : k <= m
                 /\ groups' = [groups EXCEPT ![k] = Merge(@, p)]
           \/ /\ fit = {}
              /\ groups' = Append(groups, NewGroup(p))
    /\ n' = n + 1
    /\ phase' = IF n + 1 = Len(points) THEN "sort" ELSE "group"
    /\ UNCHANGED <<points, g, i, j, registers, start, remaining, values,
                   request, failed>>

(* sortPointsByAddress, one comparison of the exchange sort per step, for  *)
(* one group after the other.                                              *)
Exchange(s, k, l) ==
    IF s[k].Address > s[l].Address
    THEN [s EXCEPT ![k] = s[l], ![l] = s[k]]
    ELSE s

\* Mutant: the inner loop stays at its first comparison.
SortPoints_Stuck ==
    /\ phase = "sort"
    /\ i < Len(Group.Points)
    /\ j' = i + 1
    /\ groups' = [groups EXCEPT ![g].Points = Exchange(@, i, i + 1)]
    /\ UNCHANGED <<points, phase, n, g, i, registers, start, remaining,
                   values, request, failed>>

SortPoints ==
    /\ phase = "sort"
    /\ i < Len(Group.Points)
    /\ groups' = [groups EXCEPT ![g].Points = Exchange(@, i, i + j)]
    /\ IF i + j < Len(Group.Points)
       THEN i' = i /\ j' = j + 1
       ELSE i' = i + 1 /\ j' = 1
    /\ UNCHANGED <<points, phase, n, g, registers, start, remaining, values,
                   request, failed>>

NextToSort ==
    /\ phase = "sort"
    /\ i >= Len(Group.Points)
    /\ IF g < Len(groups) THEN g' = g + 1 /\ UNCHANGED phase
                          ELSE g' = 1 /\ phase' = "read"
    /\ i' = 1
    /\ j' = 1
    /\ UNCHANGED <<points, n, groups, registers, start, remaining, values,
                   request, failed>>

-----------------------------------------------------------------------------
(* The loop of CollectPoints over the groups goes on, with the loops of    *)
(* the next group to begin.                                                *)
NextGroup ==
    /\ g' = g + 1
    /\ phase' = IF g < Len(groups) THEN "read" ELSE "done"
    /\ registers' = <<>>
    /\ i' = 1
    /\ j' = 1
    /\ UNCHANGED <<start, remaining>>

Value(p, quality, regs) ==
    [Name |-> p.Name, Quality |-> quality, regs |-> regs, group |-> g]

(* collectBatchGroup reports every point of a group that could not be read.*)
GroupBad ==
    /\ values' = values \o [k \in 1..Len(Group.Points) |->
                               Value(Group.Points[k], "BAD", <<>>)]
    /\ NextGroup

Parse ==
    /\ phase' = "parse"
    /\ i' = 1
    /\ j' = 0
    /\ UNCHANGED <<g, start, remaining>>

Whole ==
    [type |-> Group.RegisterType, addr |-> Group.StartAddress,
     len |-> Group.TotalLength]

Fits == Group.TotalLength <= MaxRead[Group.RegisterType]

(* readBatch and the four read...Batch: one request for the group, or the  *)
(* loop of sub-batches if the group is longer than the protocol allows.    *)
StartSplit ==
    /\ phase = "read"
    /\ ~Fits
    /\ phase' = "split"
    /\ start' = Group.StartAddress
    /\ remaining' = Group.TotalLength
    /\ UNCHANGED <<points, n, groups, g, i, j, registers, values, request,
                   failed>>

(* Coils and discrete inputs: after a failure readBatchIndividual is       *)
(* called, and getModbusRegisterType refuses it the register type.         *)
ReadBitBatch ==
    /\ phase = "read"
    /\ Group.RegisterType \in BitTypes
    /\ Fits
    /\ \/ Answered(Whole) /\ Parse /\ UNCHANGED values
       \/ Refused(Whole) /\ GroupBad
    /\ UNCHANGED <<points, n, groups>>

(* Input and holding registers: after a failure the registers are read one *)
(* by one.                                                                 *)
ReadWordBatch ==
    /\ phase = "read"
    /\ Group.RegisterType \in WordTypes
    /\ Fits
    /\ \/ Answered(Whole) /\ Parse
       \/ /\ Refused(Whole)
          /\ phase' = "individual"
          /\ i' = 1
          /\ j' = 0
          /\ UNCHANGED <<g, registers, start, remaining>>
    /\ UNCHANGED <<points, n, groups, values>>

\* Mutant: a sub-batch always has the maximal length.
BatchLength_Full == MaxRead[Group.RegisterType]

BatchLength ==
    IF remaining > MaxRead[Group.RegisterType]
    THEN MaxRead[Group.RegisterType]
    ELSE remaining

SubBatch ==
    [type |-> Group.RegisterType, addr |-> start, len |-> BatchLength]

(* The loop of the four read...BatchSplit; a sub-batch that fails fails    *)
(* the group.                                                              *)
ReadSplit ==
    /\ phase = "split"
    /\ \/ /\ remaining = 0
          /\ Parse
          /\ UNCHANGED <<registers, values, request, failed>>
       \/ /\ remaining > 0
          /\ \/ /\ Answered(SubBatch)
                /\ start' = Plus(start, BatchLength)
                /\ remaining' = remaining - BatchLength
                /\ UNCHANGED <<phase, g, i, j, values>>
             \/ Refused(SubBatch) /\ GroupBad
    /\ UNCHANGED <<points, n, groups>>

Single ==
    [type |-> Group.RegisterType, len |-> 1,
     addr |-> Plus(Group.Points[i].Address, j)]

(* The loops of readBatchIndividual.                                       *)
ReadIndividual ==
    /\ phase = "individual"
    /\ \/ /\ i > Len(Group.Points)
          /\ Parse
          /\ UNCHANGED <<registers, values, request, failed>>
       \/ /\ i <= Len(Group.Points)
          /\ j = Group.Points[i].Length
          /\ i' = i + 1
          /\ j' = 0
          /\ UNCHANGED <<phase, g, registers, start, remaining, values,
                         request, failed>>
       \/ /\ i <= Len(Group.Points)
          /\ j < Group.Points[i].Length
          /\ \/ /\ Answered(Single)
                /\ j' = j + 1
                /\ UNCHANGED <<phase, g, i, start, remaining, values>>
             \/ Refused(Single) /\ GroupBad
    /\ UNCHANGED <<points, n, groups>>

-----------------------------------------------------------------------------
(* The loop of collectBatchGroup that cuts the registers into values; j is *)
(* regOffset.                                                              *)
\* Mutant: the offset advances by the width of the data type.
ParsePoint_Width(p, regs) ==
    /\ values' = Append(values, IF p.Length < Words[p.DataType]
                                THEN Value(p, "BAD", <<>>)
                                ELSE Value(p, "GOOD", regs))
    /\ i' = i + 1
    /\ j' = j + (IF p.DataType = "string" THEN p.Length
                                          ELSE Words[p.DataType])

\* Mutant: a point that cannot be parsed is skipped.
ParsePoint_Skips(p, regs) ==
    /\ values' = IF p.Length < Words[p.DataType]
                 THEN values
                 ELSE Append(values, Value(p, "GOOD", regs))
    /\ i' = i + 1
    /\ j' = j + p.Length

\* Mutant: the check of the length is off by one.
ParsePoint_OffByOne(p, regs) ==
    /\ values' = Append(values, IF p.Length <= Words[p.DataType]
                                THEN Value(p, "BAD", <<>>)
                                ELSE Value(p, "GOOD", regs))
    /\ i' = i + 1
    /\ j' = j + p.Length

ParsePoint(p, regs) ==
    /\ values' = Append(values, IF p.Length < Words[p.DataType]
                                THEN Value(p, "BAD", <<>>)
                                ELSE Value(p, "GOOD", regs))
    /\ i' = i + 1
    /\ j' = j + p.Length

(* An index past an empty slice, or a slice past the capacity, panics; a   *)
(* slice past the length but within the capacity that append has left is   *)
(* filled with zeros.                                                      *)
ParseValue ==
    /\ phase = "parse"
    /\ i <= Len(Group.Points)
    /\ LET p == Group.Points[i]
           end == j + p.Length
       IN  \/ /\ end > Len(registers) \/ (p.Length = 0 /\ p.DataType \in Unchecked)
              /\ phase' = "panic"
              /\ UNCHANGED <<i, j, values>>
           \/ /\ ~(p.Length = 0 /\ p.DataType \in Unchecked)
              /\ ParsePoint(p, [k \in 1..p.Length |->
                     IF j + k <= Len(registers) THEN registers[j + k]
                                                ELSE <<"zero", 0>>])
              /\ UNCHANGED phase
    /\ UNCHANGED <<points, n, groups, g, registers, start, remaining,
                   request, failed>>

GroupParsed ==
    /\ phase = "parse"
    /\ i > Len(Group.Points)
    /\ NextGroup
    /\ UNCHANGED <<points, n, groups, values, request, failed>>

Next ==
    \/ GroupPoint \/ SortPoints \/ NextToSort
    \/ StartSplit \/ ReadBitBatch \/ ReadWordBatch
    \/ ReadSplit \/ ReadIndividual
    \/ ParseValue \/ GroupParsed

Spec == Init /\ [][Next]_vars

(* CollectPoints runs to its end: every client call returns, an answer or  *)
(* a timeout.                                                              *)
FairSpec == Spec /\ WF_vars(Next)

-----------------------------------------------------------------------------
TypeOK ==
    /\ points \in Seq(Points) \ {<<>>}
    /\ phase \in {"group", "sort", "read", "split", "individual", "parse",
                  "done", "panic"}
    /\ n \in 0..Len(points)
    /\ groups \in Seq([RegisterType : RegisterTypes, StartAddress : UInt16,
                       Points : Seq(Points), TotalLength : UInt16])
    /\ g \in 1..(Len(groups) + 1)
    /\ i \in Nat \ {0}
    /\ j \in Nat
    /\ registers \in Seq(RegisterTypes \X UInt16)
    /\ start \in UInt16
    /\ remaining \in UInt16
    /\ values \in Seq([Name : Nat, Quality : {"GOOD", "BAD"}, group : Nat,
                       regs : Seq((RegisterTypes \cup {"zero"}) \X UInt16)])
    /\ request \in Requests
    /\ failed \subseteq 1..Len(groups)

Elements(s) == {s[k] : k \in DOMAIN s}

(* config.ValidatePoints, which Init of the service applies to the list;   *)
(* names differ here, and a scale is never zero.                           *)
ValidatePoints(ps) ==
    /\ \A p \in Elements(ps) : p.Length > 0
    /\ \A k, l \in DOMAIN ps :
          ps[k].Address = ps[l].Address
              /\ ps[k].RegisterType = ps[l].RegisterType => k = l

(* No point reaches the last address, so no sum of an address and a length *)
(* wraps round.                                                            *)
InRange(ps) == \A p \in Elements(ps) : p.Address + p.Length < AddressSpace

(* A value of quality GOOD is made of the registers of its own point, all  *)
(* of them and in order: grouping, sorting, the sub-batches, the fallback  *)
(* and the offsets agree about which register belongs to whom.             *)
GoodMeansOwnRegisters ==
    InRange(points) =>
        \A v \in Elements(values), p \in Elements(points) :
            v.Quality = "GOOD" /\ v.Name = p.Name
                => v.regs = Content(p.RegisterType, p.Address, p.Length)

(* A poll that ends reports every point of its list once, GOOD or BAD,     *)
(* whichever requests failed.                                              *)
EveryPointReported ==
    phase = "done" =>
        /\ Len(values) = Len(points)
        /\ \A p \in Elements(points) :
              \E v \in Elements(values) : v.Name = p.Name

(* A list that ValidatePoints accepts and that stays below the last        *)
(* address never makes collectBatchGroup slice past the registers it read. *)
NoPanic ==
    ValidatePoints(points) /\ InRange(points) => phase # "panic"

(* A request asks for no more registers than the protocol allows and for   *)
(* no register that is not configured: a device with gaps in its map of    *)
(* registers would refuse it, and with it the points of the group.         *)
RequestsAreConfigured ==
    ValidatePoints(points) /\ InRange(points) /\ request # NoRequest =>
        /\ request.len \in 1..MaxRead[request.type]
        /\ \A a \in request.addr..(request.addr + request.len - 1) :
              \E p \in Elements(points) :
                  /\ p.RegisterType = request.type
                  /\ a \in p.Address..(p.Address + p.Length - 1)

(* The failure of a group stays in the group: a point is BAD only if a     *)
(* request of its own group failed or its length is too short for its type.*)
BadOnlyForCause ==
    \A v \in Elements(values) :
        v.Quality = "BAD" =>
            \/ v.group \in failed
            \/ \E p \in Elements(points) :
                  p.Name = v.Name /\ p.Length < Words[p.DataType]

(* The loops end, for every list and every pattern of failures.            *)
Terminates == <>(phase \in {"done", "panic"})
=============================================================================
