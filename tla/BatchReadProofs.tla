---------------------------- MODULE BatchReadProofs ----------------------------
(***************************************************************************)
(* Safety of one poll, for any list of points, any address space, any      *)
(* limits of a request and any pattern of failures.  The proof goes in     *)
(* layers, each an invariant that may use those before it: where the loops *)
(* are, which row stands where in the groups, which rows are reported,     *)
(* and, for a list that stays in range, that a group is a run of adjacent  *)
(* points and the registers read so far are a run from its start.          *)
(***************************************************************************)
EXTENDS BatchRead, FunctionTheorems, FiniteSetTheorems, TLAPS

-----------------------------------------------------------------------------
(* Where the loops are.                                                    *)
GroupLoops == {"read", "split", "individual", "parse", "panic"}

LoopInv ==
    /\ phase = "group" <=> n # Len(points)
    /\ phase = "group" => g = 1 /\ i = 1 /\ j = 1
    /\ phase \in {"group", "sort"} => values = <<>>
    /\ phase \in {"group", "sort", "read"} => registers = <<>>
    /\ phase \in {"sort"} \cup GroupLoops => g \in DOMAIN groups
    /\ phase = "sort" =>
          /\ j >= 1 /\ i <= Len(Group.Points)
          /\ i < Len(Group.Points) => i + j <= Len(Group.Points)
    /\ phase = "done" => g = Len(groups) + 1
    /\ phase = "panic" => i \in DOMAIN Group.Points

NonEmptyGroups == \A k \in DOMAIN groups : groups[k].Points # <<>>

TypeInv == TypeOK /\ NonEmptyGroups /\ LoopInv

(* Every row that is grouped stands in one place of one group, of its own  *)
(* register type.                                                          *)
Row(k, l) == groups[k].Points[l].Name

RowsInv ==
    /\ points \in PointLists
    /\ \A k \in DOMAIN groups : \A l \in DOMAIN groups[k].Points :
          /\ Row(k, l) \in 1..n
          /\ groups[k].Points[l] = points[Row(k, l)]
          /\ groups[k].RegisterType = points[Row(k, l)].RegisterType
    /\ \A r \in 1..n : \E k \in DOMAIN groups :
          \E l \in DOMAIN groups[k].Points : Row(k, l) = r
    /\ \A k, m \in DOMAIN groups :
          \A l \in DOMAIN groups[k].Points, o \in DOMAIN groups[m].Points :
             Row(k, l) = Row(m, o) => k = m /\ l = o

(* The rows reported so far: those of the groups before g, and of group g  *)
(* those the loop of collectBatchGroup is past.                            *)
Past(k, l) ==
    /\ phase \notin {"group", "sort"}
    /\ k < g \/ (k = g /\ phase \in {"parse", "panic"} /\ l < i)

ReportInv ==
    /\ \A a \in DOMAIN values :
          \E k \in DOMAIN groups : \E l \in DOMAIN groups[k].Points :
             /\ Past(k, l)
             /\ values[a].group = k /\ values[a].Name = Row(k, l)
    /\ \A k \in DOMAIN groups : \A l \in DOMAIN groups[k].Points :
          Past(k, l) => \E a \in DOMAIN values : values[a].Name = Row(k, l)
    /\ \A a, b \in DOMAIN values : values[a].Name = values[b].Name => a = b

(* A group is a run of adjacent points.                                    *)
End(p) == p.Address + p.Length

IsRun(grp) ==
    LET ps == grp.Points IN
    /\ grp.StartAddress = ps[1].Address
    /\ grp.StartAddress + grp.TotalLength = End(ps[Len(ps)])
    /\ \A l, m \in DOMAIN ps : m = l + 1 => ps[m].Address = End(ps[l])
    /\ \A l, m \in DOMAIN ps : l < m => ps[l].Address <= ps[m].Address
    /\ \A l \in DOMAIN ps : /\ grp.StartAddress <= ps[l].Address
                            /\ End(ps[l]) <= grp.StartAddress + grp.TotalLength
    /\ \A a \in grp.StartAddress..(grp.StartAddress + grp.TotalLength - 1) :
          \E l \in DOMAIN ps : a \in ps[l].Address..(End(ps[l]) - 1)

RunInv == InRange(points) => \A k \in DOMAIN groups : IsRun(groups[k])

(* The registers read so far are the first ones of the group.  With this   *)
(* the properties about values and requests are inductive themselves.      *)
ReadTo(a) ==
    /\ a >= Group.StartAddress
    /\ registers = Content(Group.RegisterType, Group.StartAddress,
                           a - Group.StartAddress)

GroupEnd == Group.StartAddress + Group.TotalLength

ReadInv ==
    InRange(points) =>
        /\ phase = "split" => ReadTo(start) /\ start + remaining = GroupEnd
        /\ phase = "individual" /\ i <= Len(Group.Points) =>
              j <= Group.Points[i].Length /\ ReadTo(Group.Points[i].Address + j)
        /\ phase = "individual" /\ i > Len(Group.Points) => ReadTo(GroupEnd)
        /\ phase = "parse" => ReadTo(GroupEnd)
        /\ phase = "parse" /\ i <= Len(Group.Points) =>
              j = Group.Points[i].Address - Group.StartAddress

-----------------------------------------------------------------------------
(* Sums of addresses, and the content of a run of registers.               *)
GroupRecords ==
    [RegisterType : RegisterTypes, StartAddress : UInt16, Points : Seq(Points),
     TotalLength : UInt16]

Registers == RegisterTypes \X UInt16

ValueRecords ==
    [Name : Nat, Quality : {"GOOD", "BAD"}, group : Nat,
     regs : Seq((RegisterTypes \cup {"zero"}) \X UInt16)]

LEMMA PlusType ==
    ASSUME NEW a \in Nat, NEW b \in Nat
    PROVE  Plus(a, b) \in UInt16
BY BatchReadAssumption DEF Plus, UInt16

LEMMA PlusSmall ==
    ASSUME NEW a \in Nat, NEW b \in Nat, a + b < AddressSpace
    PROVE  Plus(a, b) = a + b
BY BatchReadAssumption DEF Plus

LEMMA UInt16IsNat == UInt16 \subseteq Nat /\ 0 \in UInt16
BY BatchReadAssumption DEF UInt16

LEMMA ContentType ==
    ASSUME NEW t \in RegisterTypes, NEW a \in Nat, NEW len \in Nat
    PROVE  /\ Content(t, a, len) \in Seq(Registers)
           /\ Len(Content(t, a, len)) = len
<1>1. \A k \in 1..len : <<t, Plus(a, k - 1)>> \in Registers
  BY PlusType DEF Registers
<1> QED  BY <1>1 DEF Content

LEMMA PointFields ==
    ASSUME NEW p \in Points
    PROVE  /\ p.Name \in Nat /\ p.Address \in UInt16 /\ p.Length \in UInt16
           /\ p.RegisterType \in RegisterTypes /\ p.DataType \in DOMAIN Words
           /\ p.Address \in Nat /\ p.Length \in Nat /\ Words[p.DataType] \in Nat
<1>1. p.DataType \in DOMAIN Words
  BY DEF Points
<1>2. Words[p.DataType] \in Nat
  BY <1>1 DEF Words
<1> QED  BY <1>1, <1>2, UInt16IsNat DEF Points

LEMMA LimitType ==
    ASSUME NEW t \in RegisterTypes
    PROVE  MaxRead[t] \in UInt16 /\ MaxRead[t] \in Nat /\ MaxRead[t] > 0
BY BatchReadAssumption, UInt16IsNat DEF UInt16

-----------------------------------------------------------------------------
(* The group at hand, in the loops over the groups.                        *)
LEMMA GroupFields ==
    ASSUME TypeInv, g \in DOMAIN groups
    PROVE  /\ Group \in GroupRecords
           /\ Group.RegisterType \in RegisterTypes
           /\ Group.StartAddress \in UInt16 /\ Group.StartAddress \in Nat
           /\ Group.TotalLength \in UInt16 /\ Group.TotalLength \in Nat
           /\ Group.Points \in Seq(Points)
           /\ Len(Group.Points) \in Nat /\ Len(Group.Points) >= 1
           /\ DOMAIN Group.Points = 1..Len(Group.Points)
           /\ \A l \in DOMAIN Group.Points : Group.Points[l] \in Points
           /\ g \in 1..Len(groups) /\ Len(groups) \in Nat
<1>1. groups \in Seq(GroupRecords)
  BY DEF TypeInv, TypeOK, GroupRecords
<1>2. /\ Group \in GroupRecords /\ Group.Points # <<>>
      /\ g \in 1..Len(groups) /\ Len(groups) \in Nat
  BY <1>1 DEF TypeInv, NonEmptyGroups, Group
<1>3. /\ Group.Points \in Seq(Points) /\ Group.RegisterType \in RegisterTypes
      /\ Group.StartAddress \in UInt16 /\ Group.TotalLength \in UInt16
  BY <1>2 DEF GroupRecords
<1>4. /\ Len(Group.Points) \in Nat /\ Len(Group.Points) >= 1
      /\ DOMAIN Group.Points = 1..Len(Group.Points)
      /\ \A l \in DOMAIN Group.Points : Group.Points[l] \in Points
  BY <1>2, <1>3
<1> QED  BY <1>2, <1>3, <1>4, UInt16IsNat

LEMMA InitTypeInv == Init => TypeInv
<1> SUFFICES ASSUME Init PROVE TypeInv
  OBVIOUS
<1>1. points \in Seq(Points) \ {<<>>}
  BY BatchReadAssumption DEF Init
<1>2. Len(points) \in Nat /\ Len(points) # 0
  BY <1>1
<1>3. NoRequest \in Requests
  BY UInt16IsNat DEF NoRequest, Requests, RegisterTypes, BitTypes
<1>4. TypeOK
  BY <1>1, <1>2, <1>3, UInt16IsNat DEF Init, TypeOK
<1> QED
  BY <1>2, <1>4 DEF Init, TypeInv, NonEmptyGroups, LoopInv, GroupLoops

(* A group that is opened, and one that a point joins.                     *)
LEMMA NewGroupType ==
    ASSUME NEW p \in Points
    PROVE  NewGroup(p) \in GroupRecords /\ NewGroup(p).Points # <<>>
BY PointFields DEF NewGroup, GroupRecords

LEMMA MergeFields ==
    ASSUME NEW grp \in GroupRecords, NEW p \in Points
    PROVE  /\ Merge(grp, p) \in GroupRecords
           /\ Merge(grp, p).Points = Append(grp.Points, p)
           /\ Merge(grp, p).Points # <<>>
           /\ Merge(grp, p).RegisterType = grp.RegisterType
           /\ Merge(grp, p).StartAddress = grp.StartAddress
           /\ Merge(grp, p).TotalLength = Plus(grp.TotalLength, p.Length)
<1>1. grp.TotalLength \in Nat /\ p.Length \in Nat /\ grp.Points \in Seq(Points)
  BY PointFields, UInt16IsNat DEF GroupRecords
<1>2. Plus(grp.TotalLength, p.Length) \in UInt16
  BY <1>1, PlusType
<1>3. Append(grp.Points, p) \in Seq(Points) /\ Append(grp.Points, p) # <<>>
  BY <1>1
<1> QED  BY <1>2, <1>3 DEF Merge, GroupRecords

(* What one step of groupPointsByRegisterType does.                        *)
LEMMA GroupPointEffect ==
    ASSUME TypeInv, GroupPoint
    PROVE  /\ n \in Nat /\ n + 1 \in DOMAIN points /\ n' = n + 1
           /\ points[n + 1] \in Points
           /\ \/ /\ groups' = Append(groups, NewGroup(points[n + 1]))
                 /\ \A k \in DOMAIN groups : ~Continues(groups[k], points[n + 1])
              \/ \E k \in DOMAIN groups :
                    /\ Continues(groups[k], points[n + 1])
                    /\ groups' = [groups EXCEPT ![k] = Merge(@, points[n + 1])]
<1>1. /\ n < Len(points) /\ n \in Nat /\ points \in Seq(Points)
      /\ groups \in Seq(GroupRecords)
  BY DEF GroupPoint, TypeInv, TypeOK, GroupRecords
<1>2. n + 1 \in DOMAIN points /\ DOMAIN groups = 1..Len(groups)
  BY <1>1
<1> QED  BY <1>1, <1>2 DEF GroupPoint

LEMMA GroupPointType ==
    ASSUME TypeInv, GroupPoint
    PROVE  TypeInv'
<1> DEFINE p == points[n + 1]
<1>1. groups \in Seq(GroupRecords) /\ p \in Points
  BY GroupPointEffect DEF TypeInv, TypeOK, GroupRecords
<1>2. /\ groups' \in Seq(GroupRecords) /\ NonEmptyGroups'
      /\ Len(groups') >= 1 /\ Len(groups') \in Nat
      /\ Len(groups) <= Len(groups')
  <2>1. CASE groups' = Append(groups, NewGroup(p))
    <3>1. /\ groups' \in Seq(GroupRecords) /\ Len(groups') = Len(groups) + 1
          /\ \A k \in DOMAIN groups' :
                \/ groups'[k] = groups[k] /\ k \in DOMAIN groups
                \/ groups'[k] = NewGroup(p)
      BY <1>1, <2>1, NewGroupType
    <3> QED  BY <1>1, <3>1, NewGroupType DEF NonEmptyGroups, TypeInv
  <2>2. ASSUME NEW k \in DOMAIN groups,
               groups' = [groups EXCEPT ![k] = Merge(@, p)]
        PROVE  /\ groups' \in Seq(GroupRecords) /\ NonEmptyGroups'
               /\ Len(groups') >= 1 /\ Len(groups') \in Nat
               /\ Len(groups) <= Len(groups')
    <3>1. groups[k] \in GroupRecords
      BY <1>1
    <3>2. Merge(groups[k], p) \in GroupRecords /\ Merge(groups[k], p).Points # <<>>
      BY <1>1, <3>1, MergeFields
    <3>3. /\ groups' \in Seq(GroupRecords) /\ Len(groups') = Len(groups)
          /\ \A m \in DOMAIN groups' : m \in DOMAIN groups
                /\ (groups'[m] = groups[m] \/ groups'[m] = Merge(groups[k], p))
      BY <1>1, <2>2, <3>2
    <3> QED  BY <1>1, <3>2, <3>3 DEF NonEmptyGroups, TypeInv
  <2> QED  BY <2>1, <2>2, GroupPointEffect
<1>3. phase' = (IF n + 1 = Len(points) THEN "sort" ELSE "group") /\ phase = "group"
  BY DEF GroupPoint
<1>4. n' = n + 1 /\ n + 1 \in 0..Len(points) /\ points' = points
  BY GroupPointEffect DEF GroupPoint, TypeInv, TypeOK
<1>5. TypeOK'
  <2>1. UNCHANGED <<points, g, i, j, registers, start, remaining, values,
                    request, failed>>
    BY DEF GroupPoint
  <2>2. failed \subseteq 1..Len(groups')
    BY <1>2, <2>1 DEF TypeInv, TypeOK
  <2> QED
    BY <1>2, <1>3, <1>4, <2>1, <2>2 DEF TypeInv, TypeOK, GroupRecords
<1>6. LoopInv'
  <2>1. /\ g' = 1 /\ i' = 1 /\ j' = 1 /\ values' = <<>> /\ registers' = <<>>
    BY <1>3 DEF GroupPoint, TypeInv, LoopInv
  <2>2. groups'[1].Points # <<>> /\ groups'[1].Points \in Seq(Points)
    <3>1. 1 \in DOMAIN groups' /\ groups'[1] \in GroupRecords
      BY <1>2
    <3> QED  BY <1>2, <3>1 DEF NonEmptyGroups, GroupRecords
  <2>3. Len(groups'[1].Points) >= 1 /\ Len(groups'[1].Points) \in Nat
    BY <2>2
  <2>4. Group' = groups'[1] /\ 1 \in DOMAIN groups'
    BY <1>2, <2>1 DEF Group
  <2> QED  BY <1>2, <1>3, <1>4, <2>1, <2>3, <2>4 DEF LoopInv, GroupLoops
<1> QED  BY <1>2, <1>5, <1>6 DEF TypeInv

-----------------------------------------------------------------------------
(* The exchange sort moves points about: position x gets the one at f[x].  *)
LEMMA ExchangeFields ==
    ASSUME NEW s \in Seq(Points), NEW k \in DOMAIN s, NEW l \in DOMAIN s
    PROVE  /\ Exchange(s, k, l) \in Seq(Points)
           /\ Len(Exchange(s, k, l)) = Len(s)
           /\ DOMAIN Exchange(s, k, l) = DOMAIN s
           /\ \E f \in [DOMAIN s -> DOMAIN s] : \A x \in DOMAIN s :
                 f[f[x]] = x /\ Exchange(s, k, l)[x] = s[f[x]]
<1>1. CASE s[k].Address > s[l].Address
  <2> DEFINE f == [x \in DOMAIN s |-> IF x = k THEN l ELSE IF x = l THEN k ELSE x]
  <2>1. Exchange(s, k, l) = [s EXCEPT ![k] = s[l], ![l] = s[k]]
    BY <1>1 DEF Exchange
  <2>2. /\ Exchange(s, k, l) \in Seq(Points)
        /\ Len(Exchange(s, k, l)) = Len(s)
        /\ DOMAIN Exchange(s, k, l) = DOMAIN s
    BY <2>1
  <2>3. f \in [DOMAIN s -> DOMAIN s]
    OBVIOUS
  <2>4. \A x \in DOMAIN s : f[f[x]] = x /\ Exchange(s, k, l)[x] = s[f[x]]
    BY <2>1
  <2> QED  BY <2>2, <2>3, <2>4
<1>2. CASE ~(s[k].Address > s[l].Address)
  <2> DEFINE f == [x \in DOMAIN s |-> x]
  <2>1. Exchange(s, k, l) = s
    BY <1>2 DEF Exchange
  <2>2. f \in [DOMAIN s -> DOMAIN s]
    OBVIOUS
  <2>3. \A x \in DOMAIN s : f[f[x]] = x /\ s[x] = s[f[x]]
    OBVIOUS
  <2> QED  BY <2>1, <2>2, <2>3
<1> QED  BY <1>1, <1>2

LEMMA SortEffect ==
    ASSUME TypeInv, SortPoints
    PROVE  /\ g \in DOMAIN groups
           /\ i \in DOMAIN Group.Points /\ i + j \in DOMAIN Group.Points
           /\ i \in Nat /\ j \in Nat /\ j >= 1
           /\ groups' \in Seq(GroupRecords)
           /\ DOMAIN groups' = DOMAIN groups /\ Len(groups') = Len(groups)
           /\ \A k \in DOMAIN groups : k # g => groups'[k] = groups[k]
           /\ groups'[g].Points = Exchange(Group.Points, i, i + j)
           /\ groups'[g].RegisterType = Group.RegisterType
           /\ groups'[g].StartAddress = Group.StartAddress
           /\ groups'[g].TotalLength = Group.TotalLength
<1>1. /\ g \in DOMAIN groups /\ i < Len(Group.Points) /\ i + j <= Len(Group.Points)
      /\ i \in Nat /\ i >= 1 /\ j \in Nat /\ j >= 1
      /\ groups \in Seq(GroupRecords)
  BY DEF SortPoints, TypeInv, LoopInv, TypeOK, GroupRecords
<1>2. i \in DOMAIN Group.Points /\ i + j \in DOMAIN Group.Points
  BY <1>1, GroupFields
<1>3. Exchange(Group.Points, i, i + j) \in Seq(Points)
  BY <1>1, <1>2, GroupFields, ExchangeFields
<1>4. groups' = [groups EXCEPT ![g] =
                    [groups[g] EXCEPT !.Points = Exchange(Group.Points, i, i + j)]]
  BY <1>1 DEF SortPoints, Group
<1> DEFINE new == [groups[g] EXCEPT !.Points = Exchange(Group.Points, i, i + j)]
<1>5. /\ new \in GroupRecords
      /\ new.Points = Exchange(Group.Points, i, i + j)
      /\ new.RegisterType = Group.RegisterType
      /\ new.StartAddress = Group.StartAddress
      /\ new.TotalLength = Group.TotalLength
  BY <1>1, <1>3, GroupFields DEF GroupRecords, Group
<1>6. groups' = [groups EXCEPT ![g] = new]
  BY <1>4
<1> HIDE DEF new
<1>7. /\ groups' \in Seq(GroupRecords) /\ groups'[g] = new
      /\ DOMAIN groups' = DOMAIN groups /\ Len(groups') = Len(groups)
      /\ \A k \in DOMAIN groups : k # g => groups'[k] = groups[k]
  BY <1>1, <1>5, <1>6
<1> QED  BY <1>1, <1>2, <1>5, <1>7

LEMMA SortType ==
    ASSUME TypeInv, SortPoints
    PROVE  TypeInv'
<1>1. /\ g \in DOMAIN groups /\ Len(groups') = Len(groups)
      /\ DOMAIN groups' = DOMAIN groups /\ groups' \in Seq(GroupRecords)
      /\ i \in Nat /\ j \in Nat /\ i >= 1 /\ j >= 1
      /\ i < Len(Group.Points) /\ i + j <= Len(Group.Points)
  BY SortEffect, GroupFields DEF SortPoints
<1>2. /\ Len(groups'[g].Points) = Len(Group.Points)
      /\ groups'[g].Points # <<>>
      /\ \A k \in DOMAIN groups : k # g => groups'[k] = groups[k]
  <2>1. Len(Exchange(Group.Points, i, i + j)) = Len(Group.Points)
    BY SortEffect, GroupFields, ExchangeFields
  <2> QED  BY <2>1, SortEffect, GroupFields
<1>3. NonEmptyGroups'
  BY <1>1, <1>2 DEF NonEmptyGroups, TypeInv
<1>4. i' \in Nat \ {0} /\ j' \in Nat
  BY <1>1 DEF SortPoints
<1>5. TypeOK'
  BY <1>1, <1>4 DEF TypeInv, TypeOK, SortPoints, GroupRecords
<1>6. LoopInv'
  <2>1. Group' = groups'[g] /\ Len(Group.Points) \in Nat
    BY GroupFields, <1>1 DEF Group, SortPoints
  <2>2. /\ j' >= 1 /\ i' <= Len(Group'.Points)
        /\ i' < Len(Group'.Points) => i' + j' <= Len(Group'.Points)
    BY <1>1, <1>2, <2>1 DEF SortPoints
  <2> QED  BY <1>1, <2>2 DEF LoopInv, SortPoints, TypeInv, GroupLoops
<1> QED  BY <1>3, <1>5, <1>6 DEF TypeInv

LEMMA NextToSortType ==
    ASSUME TypeInv, NextToSort
    PROVE  TypeInv'
<1>1. /\ g \in DOMAIN groups /\ groups' = groups /\ values = <<>>
      /\ registers = <<>> /\ i' = 1 /\ j' = 1 /\ phase = "sort"
  BY DEF NextToSort, TypeInv, LoopInv
<1>2. g \in 1..Len(groups) /\ Len(groups) \in Nat /\ 1 \in DOMAIN groups
  BY <1>1, GroupFields DEF TypeInv, TypeOK
<1>3. g' \in DOMAIN groups /\ phase' \in {"sort", "read"}
  BY <1>1, <1>2 DEF NextToSort
<1>4. TypeOK'
  <2>1. /\ UNCHANGED <<points, n, groups, registers, start, remaining>>
        /\ UNCHANGED <<values, request, failed>>
    BY <1>1 DEF NextToSort
  <2>2. g' \in 1..(Len(groups) + 1) /\ i' \in Nat \ {0} /\ j' \in Nat
    BY <1>1, <1>2, <1>3
  <2> QED  BY <1>3, <2>1, <2>2 DEF TypeInv, TypeOK
<1>5. NonEmptyGroups'
  BY <1>1 DEF TypeInv, NonEmptyGroups
<1>6. Len(Group'.Points) \in Nat /\ Len(Group'.Points) >= 1
  <2> DEFINE h == g'
  <2>1. groups \in Seq(GroupRecords) /\ h \in DOMAIN groups
    BY <1>3 DEF TypeInv, TypeOK, GroupRecords
  <2> HIDE DEF h
  <2>2. groups[h] \in GroupRecords
    BY <2>1
  <2>3. groups[h].Points \in Seq(Points) /\ groups[h].Points # <<>>
    BY <2>1, <2>2 DEF GroupRecords, TypeInv, NonEmptyGroups
  <2> QED  BY <1>1, <2>3 DEF Group, h
<1>7. LoopInv'
  BY <1>1, <1>3, <1>6 DEF LoopInv, NextToSort, TypeInv, GroupLoops
<1> QED  BY <1>4, <1>5, <1>7 DEF TypeInv

-----------------------------------------------------------------------------
(* The loops over the groups leave the list and the groups alone: a step   *)
(* stays in its group or goes on to the next.                              *)
Kept == UNCHANGED <<points, n, groups>>

LEMMA StayType ==
    ASSUME TypeInv, Kept, phase \in GroupLoops, phase' \in GroupLoops \ {"read"},
           g' = g, i' \in Nat \ {0}, j' \in Nat, registers' \in Seq(Registers),
           start' \in UInt16, remaining' \in UInt16, values' \in Seq(ValueRecords),
           request' \in Requests, failed' \subseteq 1..Len(groups),
           phase' = "panic" => i' \in DOMAIN Group.Points
    PROVE  TypeInv'
<1>1. TypeOK'
  BY DEF Kept, TypeInv, TypeOK, GroupLoops, Registers, ValueRecords
<1>2. NonEmptyGroups'
  BY DEF Kept, TypeInv, NonEmptyGroups
<1>3. g \in DOMAIN groups /\ n = Len(points)
  BY DEF TypeInv, LoopInv, GroupLoops
<1>4. LoopInv'
  BY <1>3 DEF Kept, LoopInv, GroupLoops, Group
<1> QED  BY <1>1, <1>2, <1>4 DEF TypeInv

LEMMA NextGroupType ==
    ASSUME TypeInv, Kept, phase \in GroupLoops, NextGroup,
           values' \in Seq(ValueRecords), request' \in Requests,
           failed' \subseteq 1..Len(groups)
    PROVE  TypeInv'
<1>1. g \in DOMAIN groups /\ n = Len(points)
  BY DEF TypeInv, LoopInv, GroupLoops
<1>2. g \in 1..Len(groups) /\ Len(groups) \in Nat /\ DOMAIN groups = 1..Len(groups)
  BY <1>1, GroupFields DEF TypeInv, TypeOK
<1>3. /\ g' = g + 1 /\ i' = 1 /\ j' = 1 /\ registers' = <<>>
      /\ phase' = IF g < Len(groups) THEN "read" ELSE "done"
      /\ UNCHANGED <<start, remaining>>
  BY DEF NextGroup
<1>4. TypeOK'
  BY <1>2, <1>3 DEF Kept, TypeInv, TypeOK, Registers, ValueRecords
<1>5. NonEmptyGroups'
  BY DEF Kept, TypeInv, NonEmptyGroups
<1>6. LoopInv'
  BY <1>1, <1>2, <1>3 DEF Kept, LoopInv, GroupLoops
<1> QED  BY <1>4, <1>5, <1>6 DEF TypeInv

(* The requests, and what an answer and a refusal change.                  *)
LEMMA RequestType ==
    ASSUME TypeInv, g \in DOMAIN groups
    PROVE  /\ Whole \in Requests /\ SubBatch \in Requests
           /\ i \in DOMAIN Group.Points => Single \in Requests
           /\ BatchLength \in Nat /\ BatchLength <= remaining
           /\ BatchLength <= MaxRead[Group.RegisterType]
           /\ remaining > 0 => BatchLength > 0
<1>1. /\ Group.RegisterType \in RegisterTypes
      /\ Group.StartAddress \in UInt16 /\ Group.TotalLength \in UInt16
  BY GroupFields
<1>2. start \in UInt16 /\ remaining \in UInt16 /\ remaining \in Nat
  BY UInt16IsNat DEF TypeInv, TypeOK
<1>3. /\ MaxRead[Group.RegisterType] \in UInt16 /\ MaxRead[Group.RegisterType] \in Nat
      /\ MaxRead[Group.RegisterType] > 0
  BY <1>1, LimitType
<1>4. BatchLength \in UInt16
  BY <1>2, <1>3 DEF BatchLength
<1>5. 1 \in UInt16
  BY <1>3, BatchReadAssumption DEF UInt16
<1>6. ASSUME i \in DOMAIN Group.Points PROVE Single \in Requests
  <2>1. Group.Points[i] \in Points /\ j \in Nat
    BY <1>6, GroupFields DEF TypeInv, TypeOK
  <2>2. Plus(Group.Points[i].Address, j) \in UInt16
    BY <2>1, PointFields, PlusType
  <2> QED  BY <1>1, <1>5, <2>2 DEF Single, Requests
<1>7. Whole \in Requests /\ SubBatch \in Requests
  BY <1>1, <1>2, <1>4 DEF Whole, SubBatch, Requests
<1> QED  BY <1>2, <1>3, <1>4, <1>6, <1>7, UInt16IsNat DEF BatchLength

LEMMA AnsweredType ==
    ASSUME TypeInv, NEW r \in Requests, Answered(r)
    PROVE  /\ registers' \in Seq(Registers) /\ request' \in Requests
           /\ failed' \subseteq 1..Len(groups)
<1>1. /\ r.type \in RegisterTypes /\ r.addr \in Nat /\ r.len \in Nat
  BY UInt16IsNat DEF Requests
<1>2. registers \in Seq(Registers) /\ failed \subseteq 1..Len(groups)
  BY DEF TypeInv, TypeOK, Registers
<1>3. Content(r.type, r.addr, r.len) \in Seq(Registers)
  BY <1>1, ContentType
<1>4. registers \o Content(r.type, r.addr, r.len) \in Seq(Registers)
  BY <1>2, <1>3
<1> QED  BY <1>2, <1>4 DEF Answered

LEMMA RefusedType ==
    ASSUME TypeInv, NEW r \in Requests, Refused(r), g \in DOMAIN groups
    PROVE  request' \in Requests /\ failed' \subseteq 1..Len(groups)
<1>1. failed \subseteq 1..Len(groups) /\ g \in 1..Len(groups)
  BY GroupFields DEF TypeInv, TypeOK
<1> QED  BY <1>1 DEF Refused

(* The values of a group that failed.                                      *)
LEMMA GroupBadType ==
    ASSUME TypeInv, GroupBad, g \in DOMAIN groups
    PROVE  values' \in Seq(ValueRecords)
<1> DEFINE bad == [k \in 1..Len(Group.Points) |-> Value(Group.Points[k], "BAD", <<>>)]
<1>1. g \in Nat /\ Len(Group.Points) \in Nat
  BY GroupFields
<1>2. \A k \in 1..Len(Group.Points) : bad[k] \in ValueRecords
  BY <1>1, GroupFields, PointFields DEF Value, ValueRecords
<1>3. bad \in [1..Len(Group.Points) -> ValueRecords]
  BY <1>2
<1> HIDE DEF bad
<1>4. bad \in Seq(ValueRecords)
  BY <1>1, <1>3
<1>5. values \in Seq(ValueRecords) /\ values' = values \o bad
  BY DEF GroupBad, TypeInv, TypeOK, ValueRecords, bad
<1> QED  BY <1>4, <1>5

LEMMA FailedGroupType ==
    ASSUME TypeInv, Kept, phase \in GroupLoops, NEW r \in Requests, Refused(r),
           GroupBad
    PROVE  TypeInv'
<1>1. g \in DOMAIN groups
  BY DEF TypeInv, LoopInv, GroupLoops
<1> QED
  BY <1>1, GroupBadType, RefusedType, NextGroupType DEF GroupBad

-----------------------------------------------------------------------------
(* The reading loops.                                                      *)
LEMMA ReadingType ==
    ASSUME TypeInv
    PROVE  /\ i \in Nat \ {0} /\ j \in Nat /\ start \in UInt16
           /\ remaining \in UInt16 /\ registers \in Seq(Registers)
           /\ values \in Seq(ValueRecords) /\ request \in Requests
           /\ failed \subseteq 1..Len(groups)
           /\ phase \in GroupLoops => g \in DOMAIN groups
BY DEF TypeInv, TypeOK, LoopInv, GroupLoops, Registers, ValueRecords

LEMMA StartSplitType ==
    ASSUME TypeInv, StartSplit
    PROVE  TypeInv'
<1>1. phase = "read" /\ phase' = "split" /\ Kept
  BY DEF StartSplit, Kept
<1>2. Group.StartAddress \in UInt16 /\ Group.TotalLength \in UInt16
  BY <1>1, ReadingType, GroupFields DEF GroupLoops
<1>3. /\ g' = g /\ i' = i /\ j' = j /\ registers' = registers /\ values' = values
      /\ request' = request /\ failed' = failed
      /\ start' \in UInt16 /\ remaining' \in UInt16
  BY <1>2 DEF StartSplit
<1> QED  BY <1>1, <1>3, ReadingType, StayType DEF GroupLoops

LEMMA ReadBitBatchType ==
    ASSUME TypeInv, ReadBitBatch
    PROVE  TypeInv'
<1>1. phase \in GroupLoops /\ Kept /\ Whole \in Requests
  BY ReadingType, RequestType DEF ReadBitBatch, Kept, GroupLoops
<1>2. CASE Answered(Whole) /\ Parse /\ UNCHANGED values
  <2>1. /\ registers' \in Seq(Registers) /\ request' \in Requests
        /\ failed' \subseteq 1..Len(groups)
    BY <1>1, <1>2, AnsweredType
  <2>2. /\ g' = g /\ i' = 1 /\ j' = 0 /\ start' = start /\ remaining' = remaining
        /\ phase' = "parse" /\ values' = values
    BY <1>2 DEF Parse
  <2> QED  BY <1>1, <2>1, <2>2, ReadingType, StayType DEF GroupLoops
<1>3. CASE Refused(Whole) /\ GroupBad
  BY <1>1, <1>3, FailedGroupType
<1> QED  BY <1>2, <1>3 DEF ReadBitBatch

LEMMA ReadWordBatchType ==
    ASSUME TypeInv, ReadWordBatch
    PROVE  TypeInv'
<1>1. /\ phase \in GroupLoops /\ Kept /\ Whole \in Requests /\ g \in DOMAIN groups
      /\ values' = values
  BY ReadingType, RequestType DEF ReadWordBatch, Kept, GroupLoops
<1>2. CASE Answered(Whole) /\ Parse
  <2>1. /\ registers' \in Seq(Registers) /\ request' \in Requests
        /\ failed' \subseteq 1..Len(groups)
    BY <1>1, <1>2, AnsweredType
  <2>2. /\ g' = g /\ i' = 1 /\ j' = 0 /\ start' = start /\ remaining' = remaining
        /\ phase' = "parse"
    BY <1>2 DEF Parse
  <2> QED  BY <1>1, <2>1, <2>2, ReadingType, StayType DEF GroupLoops
<1>3. CASE /\ Refused(Whole)
           /\ phase' = "individual"
           /\ i' = 1
           /\ j' = 0
           /\ UNCHANGED <<g, registers, start, remaining>>
  <2>1. request' \in Requests /\ failed' \subseteq 1..Len(groups)
    BY <1>1, <1>3, RefusedType
  <2> QED  BY <1>1, <1>3, <2>1, ReadingType, StayType DEF GroupLoops
<1> QED  BY <1>2, <1>3 DEF ReadWordBatch

LEMMA ReadSplitType ==
    ASSUME TypeInv, ReadSplit
    PROVE  TypeInv'
<1>1. /\ phase \in GroupLoops /\ Kept /\ SubBatch \in Requests /\ g \in DOMAIN groups
      /\ phase = "split"
  BY ReadingType, RequestType DEF ReadSplit, Kept, GroupLoops
<1>2. CASE Parse /\ UNCHANGED <<registers, values, request, failed>>
  <2>1. /\ g' = g /\ i' = 1 /\ j' = 0 /\ start' = start /\ remaining' = remaining
        /\ phase' = "parse"
    BY <1>2 DEF Parse
  <2> QED  BY <1>1, <1>2, <2>1, ReadingType, StayType DEF GroupLoops
<1>3. CASE /\ Answered(SubBatch)
           /\ start' = Plus(start, BatchLength)
           /\ remaining' = remaining - BatchLength
           /\ UNCHANGED <<phase, g, i, j, values>>
  <2>1. /\ registers' \in Seq(Registers) /\ request' \in Requests
        /\ failed' \subseteq 1..Len(groups)
    BY <1>1, <1>3, AnsweredType
  <2>2. BatchLength \in Nat /\ BatchLength <= remaining
    BY <1>1, RequestType
  <2>3. start \in Nat /\ remaining \in UInt16
    BY ReadingType, UInt16IsNat
  <2>4. start' \in UInt16
    BY <1>3, <2>2, <2>3, PlusType
  <2>5. remaining' \in UInt16
    BY <1>3, <2>2, <2>3, BatchReadAssumption DEF UInt16
  <2> QED  BY <1>1, <1>3, <2>1, <2>4, <2>5, ReadingType, StayType DEF GroupLoops
<1>4. CASE Refused(SubBatch) /\ GroupBad
  BY <1>1, <1>4, FailedGroupType
<1> QED  BY <1>2, <1>3, <1>4 DEF ReadSplit

LEMMA ReadIndividualType ==
    ASSUME TypeInv, ReadIndividual
    PROVE  TypeInv'
<1>1. /\ phase \in GroupLoops /\ Kept /\ g \in DOMAIN groups /\ phase = "individual"
  BY ReadingType DEF ReadIndividual, Kept, GroupLoops
<1>2. CASE Parse /\ UNCHANGED <<registers, values, request, failed>>
  <2>1. /\ g' = g /\ i' = 1 /\ j' = 0 /\ start' = start /\ remaining' = remaining
        /\ phase' = "parse"
    BY <1>2 DEF Parse
  <2> QED  BY <1>1, <1>2, <2>1, ReadingType, StayType DEF GroupLoops
<1>3. CASE /\ i' = i + 1
           /\ j' = 0
           /\ UNCHANGED <<phase, g, registers, start, remaining, values,
                          request, failed>>
  <2>1. i + 1 \in Nat \ {0}
    BY ReadingType
  <2> QED  BY <1>1, <1>3, <2>1, ReadingType, StayType DEF GroupLoops
<1>4. ASSUME i <= Len(Group.Points)
      PROVE  Single \in Requests
  <2>1. i \in DOMAIN Group.Points
    BY <1>1, <1>4, ReadingType, GroupFields
  <2> QED  BY <1>1, <2>1, RequestType
<1>5. CASE /\ i <= Len(Group.Points)
           /\ Answered(Single)
           /\ j' = j + 1
           /\ UNCHANGED <<phase, g, i, start, remaining, values>>
  <2>1. /\ registers' \in Seq(Registers) /\ request' \in Requests
        /\ failed' \subseteq 1..Len(groups)
    BY <1>4, <1>5, AnsweredType
  <2>2. j + 1 \in Nat
    BY ReadingType
  <2> QED  BY <1>1, <1>5, <2>1, <2>2, ReadingType, StayType DEF GroupLoops
<1>6. CASE i <= Len(Group.Points) /\ Refused(Single) /\ GroupBad
  BY <1>1, <1>4, <1>6, FailedGroupType
<1> QED  BY <1>2, <1>3, <1>5, <1>6 DEF ReadIndividual

-----------------------------------------------------------------------------
(* The loop of collectBatchGroup.                                          *)
Slice(p) ==
    [k \in 1..p.Length |-> IF j + k <= Len(registers) THEN registers[j + k]
                                                      ELSE <<"zero", 0>>]

CannotParse(p) == p.Length = 0 /\ p.DataType \in Unchecked

LEMMA ParseEffect ==
    ASSUME TypeInv, ParseValue
    PROVE  /\ i \in DOMAIN Group.Points /\ g \in DOMAIN groups /\ Kept
           /\ phase = "parse" /\ Group.Points[i] \in Points
           /\ UNCHANGED <<g, registers, start, remaining, request, failed>>
           /\ LET p == Group.Points[i] IN
              \/ /\ j + p.Length > Len(registers) \/ CannotParse(p)
                 /\ phase' = "panic"
                 /\ UNCHANGED <<i, j, values>>
              \/ /\ ~CannotParse(p)
                 /\ phase' = phase
                 /\ i' = i + 1 /\ j' = j + p.Length
                 /\ \/ /\ p.Length < Words[p.DataType]
                       /\ values' = Append(values, Value(p, "BAD", <<>>))
                    \/ /\ p.Length >= Words[p.DataType]
                       /\ values' = Append(values, Value(p, "GOOD", Slice(p)))
<1>1. g \in DOMAIN groups /\ phase = "parse" /\ i \in Nat \ {0}
  BY ReadingType DEF ParseValue, GroupLoops
<1>2. i \in DOMAIN Group.Points /\ Group.Points[i] \in Points
  BY <1>1, GroupFields DEF ParseValue
<1>3. /\ Group.Points[i].Length \in Nat
      /\ Words[Group.Points[i].DataType] \in Nat
  BY <1>2, PointFields
<1> QED  BY <1>1, <1>2, <1>3 DEF ParseValue, ParsePoint, CannotParse, Slice, Kept

LEMMA SliceType ==
    ASSUME TypeInv, NEW p \in Points
    PROVE  Slice(p) \in Seq((RegisterTypes \cup {"zero"}) \X UInt16)
<1>1. p.Length \in Nat /\ j \in Nat /\ registers \in Seq(Registers)
  BY PointFields, ReadingType
<1>2. ASSUME NEW k \in 1..p.Length
      PROVE  Slice(p)[k] \in (RegisterTypes \cup {"zero"}) \X UInt16
  <2>1. CASE j + k <= Len(registers)
    <3>1. j + k \in DOMAIN registers
      BY <1>1, <2>1
    <3>2. registers[j + k] \in Registers
      BY <1>1, <3>1
    <3> QED  BY <2>1, <3>2 DEF Slice, Registers
  <2>2. CASE ~(j + k <= Len(registers))
    BY <2>2, UInt16IsNat DEF Slice
  <2> QED  BY <2>1, <2>2
<1>3. Slice(p) \in [1..p.Length -> (RegisterTypes \cup {"zero"}) \X UInt16]
  <2>1. Slice(p) = [k \in 1..p.Length |-> Slice(p)[k]]
    BY DEF Slice
  <2> QED  BY <1>2, <2>1
<1> QED  BY <1>1, <1>3

LEMMA ParseValueType ==
    ASSUME TypeInv, ParseValue
    PROVE  TypeInv'
<1> DEFINE p == Group.Points[i]
<1>1. /\ p \in Points /\ i \in DOMAIN Group.Points /\ phase \in GroupLoops /\ Kept
      /\ UNCHANGED <<g, registers, start, remaining, request, failed>>
      /\ i \in Nat /\ j \in Nat /\ g \in Nat
  BY ParseEffect, ReadingType, GroupFields DEF GroupLoops
<1>2. CASE phase' = "panic" /\ UNCHANGED <<i, j, values>>
  BY <1>1, <1>2, ReadingType, StayType DEF GroupLoops
<1>3. CASE /\ phase' = phase /\ i' = i + 1 /\ j' = j + p.Length
           /\ \/ values' = Append(values, Value(p, "BAD", <<>>))
              \/ values' = Append(values, Value(p, "GOOD", Slice(p)))
  <2>1. i' \in Nat \ {0} /\ j' \in Nat
    BY <1>1, <1>3, PointFields
  <2>2. /\ Value(p, "BAD", <<>>) \in ValueRecords
        /\ Value(p, "GOOD", Slice(p)) \in ValueRecords
    BY <1>1, PointFields, SliceType DEF Value, ValueRecords
  <2>3. values' \in Seq(ValueRecords)
    <3>1. values \in Seq(ValueRecords)
      BY ReadingType
    <3>2. CASE values' = Append(values, Value(p, "BAD", <<>>))
      BY <2>2, <3>1, <3>2
    <3>3. CASE values' = Append(values, Value(p, "GOOD", Slice(p)))
      BY <2>2, <3>1, <3>3
    <3> QED  BY <1>3, <3>2, <3>3
  <2>4. phase' = "parse"
    BY <1>3, ParseEffect
  <2> QED  BY <1>1, <2>1, <2>3, <2>4, ReadingType, StayType DEF GroupLoops
<1> QED  BY <1>2, <1>3, ParseEffect

LEMMA GroupParsedType ==
    ASSUME TypeInv, GroupParsed
    PROVE  TypeInv'
<1>1. /\ phase \in GroupLoops /\ Kept /\ NextGroup
      /\ values' = values /\ request' = request /\ failed' = failed
  BY DEF GroupParsed, Kept, GroupLoops
<1> QED  BY <1>1, ReadingType, NextGroupType

LEMMA TypeInductive == TypeInv /\ [Next]_vars => TypeInv'
<1>1. TypeInv /\ UNCHANGED vars => TypeInv'
  BY DEF vars, TypeInv, TypeOK, NonEmptyGroups, LoopInv, Group
<1> QED
  BY <1>1, GroupPointType, SortType, NextToSortType, StartSplitType,
     ReadBitBatchType, ReadWordBatchType, ReadSplitType, ReadIndividualType,
     ParseValueType, GroupParsedType
  DEF Next

LEMMA TypeInvariant == Spec => []TypeInv
<1> QED  BY InitTypeInv, TypeInductive, PTL DEF Spec

(* The counters of the loops stay within the lists they index, and every   *)
(* sum of addresses and lengths is a uint16 again.                         *)
THEOREM TypeCorrect == Spec => []TypeOK
<1> QED  BY TypeInvariant, PTL DEF TypeInv

-----------------------------------------------------------------------------
(* Grouping adds the next row in one place and moves no other.             *)
OldPlace(k, l) == k \in DOMAIN groups /\ l \in DOMAIN groups[k].Points

NextRowAt(k, l) ==
    /\ ~OldPlace(k, l)
    /\ groups'[k].Points[l] = points[n + 1]
    /\ groups'[k].RegisterType = points[n + 1].RegisterType
    /\ \A m \in DOMAIN groups' : \A o \in DOMAIN groups'[m].Points :
          (m = k /\ o = l) \/ OldPlace(m, o)
    /\ \A m \in DOMAIN groups :
          /\ m \in DOMAIN groups'
          /\ groups'[m].RegisterType = groups[m].RegisterType
          /\ \A o \in DOMAIN groups[m].Points :
                /\ o \in DOMAIN groups'[m].Points
                /\ groups'[m].Points[o] = groups[m].Points[o]

LEMMA PlaceOfNextRow ==
    ASSUME TypeInv, GroupPoint
    PROVE  \E k \in DOMAIN groups' : \E l \in DOMAIN groups'[k].Points : NextRowAt(k, l)
<1> DEFINE p == points[n + 1]
<1>1. groups \in Seq(GroupRecords) /\ p \in Points
  BY GroupPointEffect DEF TypeInv, TypeOK, GroupRecords
<1>2. CASE groups' = Append(groups, NewGroup(p))
  <2>1. /\ Len(groups) + 1 \in DOMAIN groups' /\ Len(groups) + 1 \notin DOMAIN groups
        /\ groups'[Len(groups) + 1] = NewGroup(p)
        /\ \A m \in DOMAIN groups : m \in DOMAIN groups' /\ groups'[m] = groups[m]
        /\ \A m \in DOMAIN groups' : m \in DOMAIN groups \/ m = Len(groups) + 1
    BY <1>1, <1>2, NewGroupType
  <2>2. /\ NewGroup(p).Points = <<p>> /\ NewGroup(p).RegisterType = p.RegisterType
        /\ DOMAIN NewGroup(p).Points = {1} /\ NewGroup(p).Points[1] = p
    BY DEF NewGroup
  <2> QED  BY <2>1, <2>2 DEF OldPlace, NextRowAt
<1>3. ASSUME NEW k \in DOMAIN groups, Continues(groups[k], p),
             groups' = [groups EXCEPT ![k] = Merge(@, p)]
      PROVE  \E l \in DOMAIN groups'[k].Points : NextRowAt(k, l)
  <2> DEFINE s == groups[k].Points
             l == Len(s) + 1
  <2>0. groups[k] \in GroupRecords
    BY <1>1
  <2>1. s \in Seq(Points)
    BY <2>0 DEF GroupRecords
  <2>2. Merge(groups[k], p).Points = Append(s, p)
        /\ Merge(groups[k], p).RegisterType = groups[k].RegisterType
    BY <1>1, <2>0, MergeFields
  <2>3. /\ DOMAIN groups' = DOMAIN groups
        /\ groups'[k] = Merge(groups[k], p)
        /\ \A m \in DOMAIN groups : m # k => groups'[m] = groups[m]
    BY <1>1, <1>3
  <2>4. groups[k].RegisterType = p.RegisterType
    BY <1>3 DEF Continues
  <2>4a. groups'[k].Points = Append(s, p)
    BY <2>2, <2>3
  <2> HIDE DEF s
  <2>5. /\ l \in DOMAIN groups'[k].Points /\ l \notin DOMAIN s
        /\ groups'[k].Points[l] = p
        /\ \A o \in DOMAIN groups'[k].Points : o = l \/ o \in DOMAIN s
        /\ \A o \in DOMAIN s : /\ o \in DOMAIN groups'[k].Points
                               /\ groups'[k].Points[o] = s[o]
    BY <1>1, <2>1, <2>4a
  <2> HIDE DEF l
  <2>6. NextRowAt(k, l)
    BY <2>2, <2>3, <2>4, <2>5 DEF OldPlace, NextRowAt, s
  <2> QED  BY <2>5, <2>6
<1>4. CASE \E k \in DOMAIN groups :
              /\ Continues(groups[k], p)
              /\ groups' = [groups EXCEPT ![k] = Merge(@, p)]
  <2>1. DOMAIN groups' = DOMAIN groups
    BY <1>1, <1>4
  <2> QED  BY <1>3, <1>4, <2>1
<1> QED  BY <1>2, <1>4, GroupPointEffect

LEMMA NamesAreRows ==
    ASSUME TypeInv, RowsInv, NEW r \in DOMAIN points
    PROVE  points[r] \in Points /\ points[r].Name = r
<1>1. points \in Seq(Points)
  BY DEF TypeInv, TypeOK
<1> QED  BY <1>1, BatchReadAssumption DEF RowsInv

LEMMA GroupPointRows ==
    ASSUME TypeInv, RowsInv, GroupPoint
    PROVE  RowsInv'
<1> DEFINE p == points[n + 1]
<1>1. /\ n \in Nat /\ n + 1 \in DOMAIN points /\ n' = n + 1 /\ points' = points
      /\ p.Name = n + 1
  BY GroupPointEffect, NamesAreRows DEF GroupPoint
<1>2. \A r : r \in 1..n' <=> r \in 1..n \/ r = n + 1
  BY <1>1
<1>2a. PICK k \in DOMAIN groups' : \E l \in DOMAIN groups'[k].Points : NextRowAt(k, l)
  BY PlaceOfNextRow
<1>2b. PICK l \in DOMAIN groups'[k].Points : NextRowAt(k, l)
  BY <1>2a
<1>3. /\ ~OldPlace(k, l)
      /\ groups'[k].Points[l] = p
      /\ groups'[k].RegisterType = p.RegisterType
      /\ \A m \in DOMAIN groups' : \A o \in DOMAIN groups'[m].Points :
            (m = k /\ o = l) \/ OldPlace(m, o)
      /\ \A m \in DOMAIN groups :
            /\ m \in DOMAIN groups'
            /\ groups'[m].RegisterType = groups[m].RegisterType
            /\ \A o \in DOMAIN groups[m].Points :
                  /\ o \in DOMAIN groups'[m].Points
                  /\ groups'[m].Points[o] = groups[m].Points[o]
  BY <1>2b DEF NextRowAt
<1>4. \A m, o : OldPlace(m, o) =>
          /\ Row(m, o) \in 1..n
          /\ groups'[m].Points[o] = groups[m].Points[o]
          /\ groups[m].Points[o] = points[Row(m, o)]
          /\ groups'[m].RegisterType = points[Row(m, o)].RegisterType
  BY <1>3 DEF RowsInv, OldPlace
<1>5. n + 1 \notin 1..n
  BY <1>1
<1>6. ASSUME NEW m \in DOMAIN groups', NEW o \in DOMAIN groups'[m].Points
      PROVE  /\ groups'[m].Points[o].Name \in 1..n'
             /\ groups'[m].Points[o] = points[groups'[m].Points[o].Name]
             /\ groups'[m].RegisterType
                    = points[groups'[m].Points[o].Name].RegisterType
  <2>1. CASE m = k /\ o = l
    BY <1>1, <1>2, <1>3, <2>1
  <2>2. CASE OldPlace(m, o)
    BY <1>2, <1>4, <2>2 DEF Row
  <2> QED  BY <1>3, <2>1, <2>2
<1>7. ASSUME NEW r \in 1..n'
      PROVE  \E m \in DOMAIN groups' : \E o \in DOMAIN groups'[m].Points :
                groups'[m].Points[o].Name = r
  <2>1. CASE r = n + 1
    BY <1>1, <1>3, <2>1
  <2>2. CASE r \in 1..n
    <3>1. PICK m \in DOMAIN groups : \E o \in DOMAIN groups[m].Points : Row(m, o) = r
      BY <2>2 DEF RowsInv
    <3>2. PICK o \in DOMAIN groups[m].Points : Row(m, o) = r
      BY <3>1
    <3> QED  BY <1>3, <3>2 DEF Row
  <2> QED  BY <1>2, <2>1, <2>2
<1>8. ASSUME NEW m \in DOMAIN groups', NEW o \in DOMAIN groups'[m].Points,
             NEW x \in DOMAIN groups', NEW y \in DOMAIN groups'[x].Points,
             groups'[m].Points[o].Name = groups'[x].Points[y].Name
      PROVE  m = x /\ o = y
  <2>1. CASE OldPlace(m, o) /\ OldPlace(x, y)
    BY <1>4, <1>8, <2>1 DEF RowsInv, OldPlace, Row
  <2>2. CASE ~OldPlace(m, o) /\ OldPlace(x, y)
    BY <1>1, <1>3, <1>4, <1>5, <1>8, <2>2 DEF Row
  <2>3. CASE OldPlace(m, o) /\ ~OldPlace(x, y)
    BY <1>1, <1>3, <1>4, <1>5, <1>8, <2>3 DEF Row
  <2>4. CASE ~OldPlace(m, o) /\ ~OldPlace(x, y)
    BY <1>3, <2>4
  <2> QED  BY <2>1, <2>2, <2>3, <2>4
<1> QED  BY <1>1, <1>6, <1>7, <1>8 DEF RowsInv, Row

(* Sorting permutes the places of one group.                               *)
LEMMA SortMoves ==
    ASSUME TypeInv, SortPoints
    PROVE  \E f \in [DOMAIN Group.Points -> DOMAIN Group.Points] :
              /\ DOMAIN groups'[g].Points = DOMAIN Group.Points
              /\ \A x \in DOMAIN Group.Points :
                    f[f[x]] = x /\ groups'[g].Points[x] = Group.Points[f[x]]
<1>1. /\ Group.Points \in Seq(Points) /\ i \in DOMAIN Group.Points
      /\ i + j \in DOMAIN Group.Points
      /\ groups'[g].Points = Exchange(Group.Points, i, i + j)
  BY SortEffect, GroupFields
<1> DEFINE s == Group.Points
           b == i + j
           e == Exchange(s, i, b)
<1>2. /\ DOMAIN e = DOMAIN s
      /\ \E f \in [DOMAIN s -> DOMAIN s] : \A x \in DOMAIN s :
            f[f[x]] = x /\ e[x] = s[f[x]]
  <2>1. s \in Seq(Points) /\ i \in DOMAIN s /\ b \in DOMAIN s
    BY <1>1
  <2> HIDE DEF s, b
  <2> QED  BY ONLY <2>1, ExchangeFields
<1>3. groups'[g].Points = e
  BY <1>1
<1> HIDE DEF e
<1> QED  BY <1>2, <1>3

LEMMA SortRows ==
    ASSUME TypeInv, RowsInv, SortPoints
    PROVE  RowsInv'
<1>1. /\ g \in DOMAIN groups /\ DOMAIN groups' = DOMAIN groups
      /\ \A k \in DOMAIN groups : k # g => groups'[k] = groups[k]
      /\ groups'[g].RegisterType = Group.RegisterType
      /\ n' = n /\ points' = points
  BY SortEffect DEF SortPoints
<1>2. PICK f \in [DOMAIN Group.Points -> DOMAIN Group.Points] :
              /\ DOMAIN groups'[g].Points = DOMAIN Group.Points
              /\ \A x \in DOMAIN Group.Points :
                    f[f[x]] = x /\ groups'[g].Points[x] = Group.Points[f[x]]
  BY SortMoves
<1> DEFINE from(k, l) == IF k = g THEN f[l] ELSE l
<1>3. ASSUME NEW k \in DOMAIN groups
      PROVE  /\ DOMAIN groups'[k].Points = DOMAIN groups[k].Points
             /\ groups'[k].RegisterType = groups[k].RegisterType
             /\ \A l \in DOMAIN groups[k].Points :
                   /\ from(k, l) \in DOMAIN groups[k].Points
                   /\ from(k, from(k, l)) = l
                   /\ groups'[k].Points[l] = groups[k].Points[from(k, l)]
  BY <1>1, <1>2 DEF Group
<1> HIDE DEF from
<1>4. ASSUME NEW k \in DOMAIN groups', NEW l \in DOMAIN groups'[k].Points
      PROVE  /\ groups'[k].Points[l].Name \in 1..n'
             /\ groups'[k].Points[l] = points[groups'[k].Points[l].Name]
             /\ groups'[k].RegisterType
                    = points[groups'[k].Points[l].Name].RegisterType
  BY <1>1, <1>3 DEF RowsInv, Row
<1>5. ASSUME NEW r \in 1..n'
      PROVE  \E k \in DOMAIN groups' : \E l \in DOMAIN groups'[k].Points :
                groups'[k].Points[l].Name = r
  <2>0. PICK k \in DOMAIN groups : \E l \in DOMAIN groups[k].Points : Row(k, l) = r
    BY <1>1 DEF RowsInv
  <2>1. PICK l \in DOMAIN groups[k].Points : Row(k, l) = r
    BY <2>0
  <2>2. /\ from(k, l) \in DOMAIN groups'[k].Points
        /\ groups'[k].Points[from(k, l)] = groups[k].Points[l]
    BY <1>3, <2>1
  <2> QED  BY <1>1, <2>1, <2>2 DEF Row
<1>6. ASSUME NEW k \in DOMAIN groups', NEW l \in DOMAIN groups'[k].Points,
             NEW m \in DOMAIN groups', NEW o \in DOMAIN groups'[m].Points,
             groups'[k].Points[l].Name = groups'[m].Points[o].Name
      PROVE  k = m /\ l = o
  <2>1. k = m /\ from(k, l) = from(m, o)
    BY <1>1, <1>3, <1>6 DEF RowsInv, Row
  <2> QED  BY <1>1, <1>3, <2>1
<1> QED  BY <1>1, <1>4, <1>5, <1>6 DEF RowsInv, Row

LEMMA RowsInductive == TypeInv /\ RowsInv /\ [Next]_vars => RowsInv'
<1> SUFFICES ASSUME TypeInv, RowsInv, [Next]_vars PROVE RowsInv'
  OBVIOUS
<1>1. CASE GroupPoint
  BY <1>1, GroupPointRows
<1>2. CASE SortPoints
  BY <1>2, SortRows
<1>3. CASE Kept
  BY <1>3 DEF Kept, RowsInv, Row
<1> QED
  BY <1>1, <1>2, <1>3
  DEF Next, vars, Kept, NextToSort, StartSplit, ReadBitBatch, ReadWordBatch,
      ReadSplit, ReadIndividual, ParseValue, GroupParsed

LEMMA RowsInvariant == Spec => []RowsInv
<1>1. Init => RowsInv
  <2> SUFFICES ASSUME Init PROVE RowsInv
    OBVIOUS
  <2>1. DOMAIN groups = {} /\ 1..n = {}
    BY DEF Init
  <2> QED  BY <2>1 DEF Init, RowsInv
<1> QED  BY <1>1, TypeInvariant, RowsInductive, PTL DEF Spec

-----------------------------------------------------------------------------
(* Reporting.  What the steps need to know of the places in the groups.    *)
LEMMA PlaceTypes ==
    ASSUME TypeInv, NEW k \in DOMAIN groups, NEW l \in DOMAIN groups[k].Points
    PROVE  /\ groups[k].Points \in Seq(Points) /\ groups[k].Points[l] \in Points
           /\ DOMAIN groups[k].Points = 1..Len(groups[k].Points)
           /\ k \in Nat /\ k >= 1 /\ k <= Len(groups) /\ Len(groups) \in Nat
           /\ l \in Nat /\ l >= 1 /\ l <= Len(groups[k].Points)
           /\ Len(groups[k].Points) \in Nat
<1>1. groups \in Seq(GroupRecords)
  BY DEF TypeInv, TypeOK, GroupRecords
<1>2. groups[k] \in GroupRecords /\ k \in 1..Len(groups)
  BY <1>1
<1>3. groups[k].Points \in Seq(Points)
  BY <1>2 DEF GroupRecords
<1>4. Len(groups) \in Nat
  BY <1>1
<1> QED  BY <1>2, <1>3, <1>4

(* Steps before the first group is read, when nothing is reported yet.     *)
LEMMA NothingReported ==
    ASSUME values' = <<>>, phase' \in {"group", "sort", "read"},
           phase' = "read" => g' = 1, groups' \in Seq(GroupRecords)
    PROVE  ReportInv'
<1>1. DOMAIN values' = {}
  OBVIOUS
<1>2. ASSUME NEW k \in DOMAIN groups', NEW l
      PROVE  ~Past(k, l)'
  <2>1. k \in Nat /\ k >= 1
    OBVIOUS
  <2> QED  BY <2>1 DEF Past
<1> QED  BY <1>1, <1>2 DEF ReportInv

(* Steps that report nothing and pass no place.                            *)
LEMMA SameReports ==
    ASSUME ReportInv, values' = values, groups' = groups,
           \A k \in DOMAIN groups : \A l \in DOMAIN groups[k].Points :
              Past(k, l)' <=> Past(k, l)
    PROVE  ReportInv'
BY DEF ReportInv, Row

LEMMA StayReports ==
    ASSUME TypeInv, ReportInv, values' = values, groups' = groups, g' = g,
           phase \in GroupLoops, phase' \in GroupLoops,
           \/ phase \notin {"parse", "panic"} /\ phase' \notin {"parse", "panic"}
           \/ phase \notin {"parse", "panic"} /\ i' = 1
           \/ phase = "parse" /\ i' = i /\ phase' \in {"parse", "panic"}
    PROVE  ReportInv'
<1>1. ASSUME NEW k \in DOMAIN groups, NEW l \in DOMAIN groups[k].Points
      PROVE  Past(k, l)' <=> Past(k, l)
  <2>1. l >= 1 /\ l \in Nat
    BY PlaceTypes
  <2> QED  BY <2>1 DEF Past, GroupLoops
<1> QED  BY <1>1, SameReports

LEMMA ConcatFields ==
    ASSUME NEW S, NEW s \in Seq(S), NEW t \in Seq(S)
    PROVE  /\ DOMAIN (s \o t) = 1..Len(s) + Len(t)
           /\ \A a \in 1..Len(s) : (s \o t)[a] = s[a]
           /\ \A k \in 1..Len(t) : (s \o t)[Len(s) + k] = t[k]
OBVIOUS

(* A group that failed is reported as a whole.                             *)
LEMMA FailedGroupReports ==
    ASSUME TypeInv, RowsInv, ReportInv, groups' = groups, GroupBad,
           phase \in {"read", "split", "individual"}
    PROVE  ReportInv'
<1> DEFINE m == Len(values)
           size == Len(Group.Points)
           bad == [k \in 1..size |-> Value(Group.Points[k], "BAD", <<>>)]
<1>1. /\ g \in DOMAIN groups /\ values \in Seq(ValueRecords) /\ m \in Nat
      /\ size \in Nat /\ DOMAIN Group.Points = 1..size /\ DOMAIN groups = 1..Len(groups)
      /\ g \in Nat /\ Group = groups[g]
  BY ReadingType, GroupFields DEF GroupLoops, Group, TypeInv, TypeOK
<1>2. values' = values \o bad
  BY DEF GroupBad
<1>3. bad \in Seq(ValueRecords) /\ Len(bad) = size
  <2>1. \A k \in 1..size : bad[k] \in ValueRecords
    BY <1>1, GroupFields, PointFields DEF Value, ValueRecords
  <2>2. bad \in [1..size -> ValueRecords]
    BY <2>1
  <2> HIDE DEF bad, size
  <2> QED  BY <1>1, <2>2
<1>4. /\ DOMAIN values = 1..m /\ DOMAIN values' = 1..m + size
      /\ \A a \in 1..m : values'[a] = values[a]
      /\ \A k \in 1..size : /\ m + k \in DOMAIN values'
                            /\ values'[m + k] = bad[k]
      /\ \A a \in DOMAIN values' : a \in 1..m \/ \E k \in 1..size : a = m + k
  <2> HIDE DEF size, bad
  <2>1. /\ DOMAIN values = 1..m /\ DOMAIN values' = 1..m + size
        /\ \A a \in 1..m : values'[a] = values[a]
        /\ \A k \in 1..size : values'[m + k] = bad[k]
    <3>1. values \in Seq(ValueRecords) /\ DOMAIN values = 1..Len(values)
      BY <1>1
    <3>1a. bad \in Seq(ValueRecords)
      BY <1>3
    <3>2. /\ DOMAIN (values \o bad) = 1..Len(values) + Len(bad)
          /\ \A a \in 1..Len(values) : (values \o bad)[a] = values[a]
          /\ \A k \in 1..Len(bad) : (values \o bad)[Len(values) + k] = bad[k]
      BY <3>1a, <3>1, ConcatFields
    <3> QED  BY <1>2, <1>3, <3>1, <3>2 DEF m
  <2>2. \A a \in 1..m + size : a \in 1..m \/ (a - m \in 1..size /\ a = m + (a - m))
    BY <1>1
  <2>3. \A k \in 1..size : m + k \in 1..m + size
    BY <1>1
  <2> QED  BY <2>1, <2>2, <2>3
<1>5. \A k \in 1..size : bad[k].Name = Row(g, k) /\ bad[k].group = g
  BY <1>1 DEF Value, Row
<1> HIDE DEF bad, m, size
<1>6. ASSUME NEW k \in DOMAIN groups, NEW l \in DOMAIN groups[k].Points
      PROVE  /\ Past(k, l)' <=> Past(k, l) \/ k = g
             /\ k = g => ~Past(k, l)
  <2>1. k \in Nat
    BY PlaceTypes
  <2> QED  BY <1>1, <2>1 DEF Past, GroupBad, NextGroup
<1>7. ASSUME NEW a \in DOMAIN values'
      PROVE  \E k \in DOMAIN groups : \E l \in DOMAIN groups[k].Points :
                /\ Past(k, l)'
                /\ values'[a].group = k /\ values'[a].Name = Row(k, l)
  <2>1. CASE a \in 1..m
    <3>1. PICK k \in DOMAIN groups : \E l \in DOMAIN groups[k].Points :
             /\ Past(k, l)
             /\ values[a].group = k /\ values[a].Name = Row(k, l)
      BY <1>4, <2>1 DEF ReportInv
    <3> QED  BY <1>4, <1>6, <2>1, <3>1
  <2>2. ASSUME NEW l \in 1..size, a = m + l
        PROVE  \E k \in DOMAIN groups : \E x \in DOMAIN groups[k].Points :
                  /\ Past(k, x)'
                  /\ values'[a].group = k /\ values'[a].Name = Row(k, x)
    <3>1. PICK k \in DOMAIN groups : k = g
      BY <1>1
    <3>2. l \in DOMAIN groups[k].Points
      BY <1>1, <3>1
    <3>3. Past(k, l)'
      BY <1>6, <3>1, <3>2
    <3> QED  BY <1>4, <1>5, <2>2, <3>1, <3>2, <3>3
  <2> QED  BY <1>1, <1>4, <2>1, <2>2
<1>8. ASSUME NEW k \in DOMAIN groups, NEW l \in DOMAIN groups[k].Points, Past(k, l)'
      PROVE  \E a \in DOMAIN values' : values'[a].Name = Row(k, l)
  <2>1. CASE Past(k, l)
    <3>1. PICK a \in DOMAIN values : values[a].Name = Row(k, l)
      BY <2>1 DEF ReportInv
    <3>2. a \in DOMAIN values' /\ values'[a] = values[a]
      BY <1>1, <1>4, <3>1 DEF m, size
    <3> QED  BY <3>1, <3>2
  <2>2. CASE k = g
    <3>1. l \in 1..size
      BY <1>1, <2>2
    <3>2. m + l \in DOMAIN values' /\ values'[m + l].Name = Row(g, l)
      BY <1>4, <1>5, <3>1
    <3> QED  BY <2>2, <3>2
  <2> QED  BY <1>6, <1>8, <2>1, <2>2
<1>9. ASSUME NEW a \in DOMAIN values', NEW b \in DOMAIN values',
             values'[a].Name = values'[b].Name
      PROVE  a = b
  <2>1. CASE a \in 1..m /\ b \in 1..m
    BY <1>4, <1>9, <2>1 DEF ReportInv
  <2>2. ASSUME NEW c \in 1..m, NEW k \in 1..size
        PROVE  values'[c].Name # values'[m + k].Name
    <3>1. PICK x \in DOMAIN groups : \E l \in DOMAIN groups[x].Points :
             Past(x, l) /\ values[c].Name = Row(x, l)
      BY <1>4 DEF ReportInv
    <3>2. PICK l \in DOMAIN groups[x].Points :
             Past(x, l) /\ values[c].Name = Row(x, l)
      BY <3>1
    <3>3. x # g
      BY <1>6, <3>2
    <3>4. k \in DOMAIN groups[g].Points
      BY <1>1
    <3>5. Row(x, l) # Row(g, k)
      BY <1>1, <3>3, <3>4 DEF RowsInv
    <3> QED  BY <1>4, <1>5, <3>2, <3>5
  <2>3. ASSUME NEW c \in 1..size, NEW k \in 1..size,
               values'[m + c].Name = values'[m + k].Name
        PROVE  c = k
    <3>1. c \in DOMAIN groups[g].Points /\ k \in DOMAIN groups[g].Points
      BY <1>1
    <3>2. Row(g, c) = Row(g, k)
      BY <1>4, <1>5, <2>3
    <3> QED  BY <1>1, <3>1, <3>2 DEF RowsInv
  <2> QED  BY <1>4, <1>9, <2>1, <2>2, <2>3
<1> QED  BY <1>7, <1>8, <1>9 DEF ReportInv, Row

(* One more value, of the place at hand.                                   *)
LEMMA ParseValueReports ==
    ASSUME TypeInv, RowsInv, ReportInv, ParseValue
    PROVE  ReportInv'
<1> DEFINE p == Group.Points[i]
           m == Len(values)
<1>1. /\ g \in DOMAIN groups /\ i \in DOMAIN groups[g].Points
      /\ p.Name = Row(g, i) /\ groups' = groups /\ phase = "parse" /\ g' = g
  BY ParseEffect DEF Group, Row, Kept
<1>2. CASE phase' = "panic" /\ UNCHANGED <<i, j, values>>
  BY <1>1, <1>2, StayReports DEF GroupLoops
<1>3. ASSUME NEW q, NEW r, phase' = phase, i' = i + 1,
             values' = Append(values, Value(p, q, r)),
             Value(p, q, r).Name = p.Name, Value(p, q, r).group = g
      PROVE  ReportInv'
  <2>1. m \in Nat /\ DOMAIN values = 1..m /\ values \in Seq(ValueRecords)
    BY ReadingType
  <2>2. /\ DOMAIN values' = 1..m + 1
        /\ \A a \in 1..m : values'[a] = values[a]
        /\ values'[m + 1].Name = Row(g, i) /\ values'[m + 1].group = g
        /\ \A a \in DOMAIN values' : a \in 1..m \/ a = m + 1
    BY <1>1, <1>3, <2>1
  <2>3. ASSUME NEW k \in DOMAIN groups, NEW l \in DOMAIN groups[k].Points
        PROVE  /\ Past(k, l)' <=> Past(k, l) \/ (k = g /\ l = i)
               /\ Past(k, l) => ~(k = g /\ l = i)
    <3>1. k \in Nat /\ l \in Nat /\ g \in Nat /\ i \in Nat
      BY <1>1, PlaceTypes
    <3> QED  BY <1>1, <1>3, <3>1 DEF Past
  <2>4. PICK here \in DOMAIN groups : here = g
    BY <1>1
  <2>5. PICK at \in DOMAIN groups[here].Points : at = i
    BY <1>1, <2>4
  <2> HIDE DEF m
  <2>6. ASSUME NEW a \in DOMAIN values'
        PROVE  \E k \in DOMAIN groups : \E l \in DOMAIN groups[k].Points :
                  /\ Past(k, l)'
                  /\ values'[a].group = k /\ values'[a].Name = Row(k, l)
    <3>1. CASE a \in 1..m
      <4>1. PICK k \in DOMAIN groups : \E l \in DOMAIN groups[k].Points :
               /\ Past(k, l)
               /\ values[a].group = k /\ values[a].Name = Row(k, l)
        BY <2>1, <3>1 DEF ReportInv
      <4> QED  BY <2>2, <2>3, <3>1, <4>1
    <3>2. CASE a = m + 1
      <4>1. Past(here, at)'
        BY <2>3, <2>4, <2>5
      <4> QED  BY <2>2, <2>4, <2>5, <3>2, <4>1
    <3> QED  BY <2>2, <3>1, <3>2
  <2>7. ASSUME NEW k \in DOMAIN groups, NEW l \in DOMAIN groups[k].Points, Past(k, l)'
        PROVE  \E a \in DOMAIN values' : values'[a].Name = Row(k, l)
    <3>1. CASE Past(k, l)
      <4>1. PICK a \in DOMAIN values : values[a].Name = Row(k, l)
        BY <3>1 DEF ReportInv
      <4>2. a \in DOMAIN values' /\ values'[a] = values[a]
        BY <2>1, <2>2, <4>1
      <4> QED  BY <4>1, <4>2
    <3>2. CASE k = g /\ l = i
      <4>1. m + 1 \in DOMAIN values'
        BY <2>1, <2>2
      <4> QED  BY <2>2, <3>2, <4>1
    <3> QED  BY <2>3, <2>7, <3>1, <3>2
  <2>8. ASSUME NEW c \in 1..m
        PROVE  values'[c].Name # values'[m + 1].Name
    <3>1. PICK k \in DOMAIN groups : \E l \in DOMAIN groups[k].Points :
             Past(k, l) /\ values[c].Name = Row(k, l)
      BY <2>1 DEF ReportInv
    <3>2. PICK l \in DOMAIN groups[k].Points :
             Past(k, l) /\ values[c].Name = Row(k, l)
      BY <3>1
    <3>3. ~(k = g /\ l = i)
      BY <2>3, <3>2
    <3>4. Row(k, l) # Row(g, i)
      BY <1>1, <3>3 DEF RowsInv
    <3> QED  BY <2>2, <3>2, <3>4
  <2>9. ASSUME NEW a \in DOMAIN values', NEW b \in DOMAIN values',
               values'[a].Name = values'[b].Name
        PROVE  a = b
    <3>1. CASE a \in 1..m /\ b \in 1..m
      BY <2>1, <2>2, <2>9, <3>1 DEF ReportInv
    <3> QED  BY <2>2, <2>8, <2>9, <3>1
  <2> QED  BY <1>1, <2>6, <2>7, <2>9 DEF ReportInv, Row
<1>4. /\ Value(p, "BAD", <<>>).Name = p.Name /\ Value(p, "BAD", <<>>).group = g
      /\ Value(p, "GOOD", Slice(p)).Name = p.Name
      /\ Value(p, "GOOD", Slice(p)).group = g
  BY DEF Value
<1> HIDE DEF p
<1> QED  BY <1>2, <1>3, <1>4, ParseEffect DEF p

LEMMA GroupParsedReports ==
    ASSUME TypeInv, ReportInv, GroupParsed
    PROVE  ReportInv'
<1>1. /\ groups' = groups /\ values' = values /\ g' = g + 1 /\ phase = "parse"
      /\ phase' \in {"read", "done"} /\ i > Len(Group.Points) /\ g \in DOMAIN groups
  BY ReadingType DEF GroupParsed, NextGroup, GroupLoops
<1>2. ASSUME NEW k \in DOMAIN groups, NEW l \in DOMAIN groups[k].Points
      PROVE  Past(k, l)' <=> Past(k, l)
  <2>1. /\ k \in Nat /\ g \in Nat /\ l \in Nat /\ i \in Nat
        /\ l <= Len(groups[k].Points) /\ Len(groups[k].Points) \in Nat
    BY <1>1, PlaceTypes, ReadingType, GroupFields
  <2>2. k = g => l < i
    BY <1>1, <2>1 DEF Group
  <2> QED  BY <1>1, <2>1, <2>2 DEF Past
<1> QED  BY <1>1, <1>2, SameReports

LEMMA ReportInductive ==
    TypeInv /\ TypeInv' /\ RowsInv /\ ReportInv /\ [Next]_vars => ReportInv'
<1> SUFFICES ASSUME TypeInv, TypeInv', RowsInv, ReportInv, [Next]_vars
             PROVE  ReportInv'
  OBVIOUS
<1>1. groups' \in Seq(GroupRecords)
  BY DEF TypeInv, TypeOK, GroupRecords
<1>2. CASE GroupPoint \/ SortPoints \/ NextToSort
  <2>1. /\ values' = <<>> /\ phase' \in {"group", "sort", "read"}
        /\ phase' = "read" => g' = 1
    BY <1>2 DEF GroupPoint, SortPoints, NextToSort, TypeInv, LoopInv
  <2> QED  BY <1>1, <2>1, NothingReported
<1>3. CASE StartSplit
  BY <1>3, StayReports DEF StartSplit, GroupLoops
<1>4. CASE ReadBitBatch
  BY <1>4, StayReports, FailedGroupReports DEF ReadBitBatch, Parse, GroupLoops
<1>5. CASE ReadWordBatch
  BY <1>5, StayReports DEF ReadWordBatch, Parse, GroupLoops
<1>6. CASE ReadSplit
  BY <1>6, StayReports, FailedGroupReports DEF ReadSplit, Parse, GroupLoops
<1>7. CASE ReadIndividual
  BY <1>7, StayReports, FailedGroupReports DEF ReadIndividual, Parse, GroupLoops
<1>8. CASE ParseValue
  BY <1>8, ParseValueReports
<1>9. CASE GroupParsed
  BY <1>9, GroupParsedReports
<1>10. CASE UNCHANGED vars
  BY <1>10 DEF vars, ReportInv, Past, Row
<1> QED
  BY <1>2, <1>3, <1>4, <1>5, <1>6, <1>7, <1>8, <1>9, <1>10 DEF Next

LEMMA ReportInvariant == Spec => []ReportInv
<1>1. Init => ReportInv
  <2> SUFFICES ASSUME Init PROVE ReportInv
    OBVIOUS
  <2>1. DOMAIN groups = {} /\ DOMAIN values = {}
    BY DEF Init
  <2> QED  BY <2>1 DEF ReportInv
<1> QED  BY <1>1, TypeInvariant, RowsInvariant, ReportInductive, PTL DEF Spec

(* At the end every place is past, so reporting is a bijection between the *)
(* values and the rows.                                                    *)
LEMMA AllReported == TypeInv /\ RowsInv /\ ReportInv => EveryPointReported
<1> SUFFICES ASSUME TypeInv, RowsInv, ReportInv, phase = "done"
             PROVE  /\ Len(values) = Len(points)
                    /\ \A p \in Elements(points) :
                          \E v \in Elements(values) : v.Name = p.Name
  BY DEF EveryPointReported
<1>1. /\ values \in Seq(ValueRecords) /\ points \in Seq(Points)
      /\ n = Len(points) /\ g = Len(groups) + 1
  BY ReadingType DEF TypeInv, TypeOK, LoopInv
<1>2. ASSUME NEW r \in 1..Len(points)
      PROVE  \E a \in 1..Len(values) : values[a].Name = r
  <2>1. PICK k \in DOMAIN groups : \E l \in DOMAIN groups[k].Points : Row(k, l) = r
    BY <1>1 DEF RowsInv
  <2>2. PICK l \in DOMAIN groups[k].Points : Row(k, l) = r
    BY <2>1
  <2>3. Past(k, l)
    BY <1>1, PlaceTypes DEF Past
  <2> QED  BY <1>1, <2>2, <2>3 DEF ReportInv
<1>3. ASSUME NEW a \in 1..Len(values)
      PROVE  values[a].Name \in 1..Len(points)
  BY <1>1 DEF ReportInv, RowsInv
<1>4. \A a, b \in 1..Len(values) : values[a].Name = values[b].Name => a = b
  BY <1>1 DEF ReportInv
<1> DEFINE name == [a \in 1..Len(values) |-> values[a].Name]
<1>5. name \in Bijection(1..Len(values), 1..Len(points))
  <2>1. /\ name \in [1..Len(values) -> 1..Len(points)]
        /\ \A a, b \in 1..Len(values) : name[a] = name[b] => a = b
        /\ \A r \in 1..Len(points) : \E a \in 1..Len(values) : name[a] = r
    BY <1>2, <1>3, <1>4
  <2> HIDE DEF name
  <2> QED  BY <2>1, Fun_IsBij
<1>6. Len(values) = Len(points)
  <2>1. Len(values) \in Nat /\ Len(points) \in Nat
    BY <1>1
  <2>2. IsFiniteSet(1..Len(values)) /\ ExistsBijection(1..Len(values), 1..Len(points))
    BY <1>5, <2>1, FS_Interval, Fun_ExistsBij
  <2>3. Cardinality(1..Len(values)) = Cardinality(1..Len(points))
    BY <2>2, FS_Bijection
  <2>4. \A m \in Nat : Cardinality(1..m) = m
    BY FS_Interval
  <2> QED  BY <2>1, <2>3, <2>4
<1>7. ASSUME NEW p \in Elements(points)
      PROVE  \E v \in Elements(values) : v.Name = p.Name
  <2>1. PICK r \in 1..Len(points) : p = points[r] /\ p.Name = r
    BY <1>1, NamesAreRows DEF Elements
  <2>2. PICK a \in 1..Len(values) : values[a].Name = r
    BY <1>2
  <2> QED  BY <1>1, <2>1, <2>2 DEF Elements
<1> QED  BY <1>6, <1>7

(* A poll that ends has one value for every point of its list, however the *)
(* points were grouped and sorted and whichever requests failed.           *)
THEOREM PollReportsEveryPoint == Spec => []EveryPointReported
<1> QED
  BY TypeInvariant, RowsInvariant, ReportInvariant, AllReported, PTL

-----------------------------------------------------------------------------
(* BadOnlyForCause is inductive: the group of a value is remembered in     *)
(* failed, and a point stays in the list.                                  *)
LEMMA BadKept ==
    ASSUME BadOnlyForCause, values' = values, failed \subseteq failed',
           points' = points
    PROVE  BadOnlyForCause'
BY DEF BadOnlyForCause, Elements

(* The values that a failed group adds.                                    *)
LEMMA BadValues ==
    ASSUME TypeInv, GroupBad, g \in DOMAIN groups, NEW a \in DOMAIN values'
    PROVE  \/ a \in DOMAIN values /\ values'[a] = values[a]
           \/ values'[a].Quality = "BAD" /\ values'[a].group = g
<1> DEFINE bad == [k \in 1..Len(Group.Points) |-> Value(Group.Points[k], "BAD", <<>>)]
<1>1. values' = values \o bad /\ values \in Seq(ValueRecords)
  BY ReadingType DEF GroupBad
<1>2. /\ bad \in Seq(ValueRecords)
      /\ \A k \in DOMAIN bad : bad[k].Quality = "BAD" /\ bad[k].group = g
  <2>1. Len(Group.Points) \in Nat /\ \A k \in 1..Len(Group.Points) : bad[k] \in ValueRecords
    BY GroupFields, PointFields DEF Value, ValueRecords
  <2>2. bad \in [1..Len(Group.Points) -> ValueRecords]
    BY <2>1
  <2>3. \A k \in DOMAIN bad : bad[k].Quality = "BAD" /\ bad[k].group = g
    BY DEF Value
  <2> HIDE DEF bad
  <2> QED  BY <2>1, <2>2, <2>3
<1> HIDE DEF bad
<1>3. bad \in Seq(ValueRecords)
  BY <1>2
<1>4. /\ DOMAIN values' = 1..Len(values) + Len(bad)
      /\ \A x \in 1..Len(values) : values'[x] = values[x]
      /\ \A k \in 1..Len(bad) : values'[Len(values) + k] = bad[k]
  BY <1>1, <1>3, ConcatFields
<1>5. /\ DOMAIN values = 1..Len(values) /\ DOMAIN bad = 1..Len(bad)
      /\ Len(values) \in Nat /\ Len(bad) \in Nat
  BY <1>1, <1>3
<1>6. CASE a \in 1..Len(values)
  BY <1>4, <1>5, <1>6
<1>7. CASE a \notin 1..Len(values)
  <2>1. a - Len(values) \in 1..Len(bad) /\ a = Len(values) + (a - Len(values))
    BY <1>4, <1>5, <1>7
  <2>2. values'[a] = bad[a - Len(values)]
    BY <1>4, <2>1
  <2> QED  BY <1>2, <1>5, <2>1, <2>2
<1> QED  BY <1>6, <1>7

LEMMA BadOfGroup ==
    ASSUME TypeInv, BadOnlyForCause, GroupBad, g \in failed',
           failed \subseteq failed', points' = points, g \in DOMAIN groups
    PROVE  BadOnlyForCause'
BY BadValues DEF BadOnlyForCause, Elements

LEMMA BadParsed ==
    ASSUME TypeInv, RowsInv, BadOnlyForCause, ParseValue
    PROVE  BadOnlyForCause'
<1> DEFINE p == Group.Points[i]
<1>1. /\ failed' = failed /\ points' = points /\ values \in Seq(ValueRecords)
      /\ p \in Points
  BY ParseEffect, ReadingType DEF Kept
<1>2. CASE values' = values
  BY <1>1, <1>2, BadKept
<1>3. p \in Elements(points)
  <2>1. g \in DOMAIN groups /\ i \in DOMAIN groups[g].Points /\ p = groups[g].Points[i]
    BY ParseEffect DEF Group
  <2>2. p = points[Row(g, i)] /\ Row(g, i) \in 1..n
    BY <2>1 DEF RowsInv
  <2>3. Row(g, i) \in DOMAIN points
    BY <2>2 DEF TypeInv, TypeOK
  <2> QED  BY <2>2, <2>3 DEF Elements
<1> HIDE DEF p
<1>4. ASSUME NEW q, NEW r, values' = Append(values, Value(p, q, r)),
             q = "BAD" => p.Length < Words[p.DataType]
      PROVE  BadOnlyForCause'
  <2>1. \A a \in DOMAIN values' :
            (a \in DOMAIN values /\ values'[a] = values[a]) \/ values'[a] = Value(p, q, r)
    BY <1>1, <1>4
  <2>2. Value(p, q, r).Name = p.Name /\ Value(p, q, r).Quality = q
    BY DEF Value
  <2> QED  BY <1>1, <1>3, <1>4, <2>1, <2>2 DEF BadOnlyForCause, Elements
<1> QED  BY <1>2, <1>4, ParseEffect DEF p

LEMMA BadInductive ==
    TypeInv /\ RowsInv /\ BadOnlyForCause /\ [Next]_vars => BadOnlyForCause'
<1> SUFFICES ASSUME TypeInv, RowsInv, BadOnlyForCause, [Next]_vars
             PROVE  BadOnlyForCause'
  OBVIOUS
<1>1. CASE GroupPoint \/ SortPoints \/ NextToSort \/ StartSplit \/ GroupParsed
           \/ UNCHANGED vars
  BY <1>1, BadKept DEF GroupPoint, SortPoints, NextToSort, StartSplit,
     GroupParsed, vars
<1>2. ASSUME NEW r, Refused(r), GroupBad, points' = points, g \in DOMAIN groups
      PROVE  BadOnlyForCause'
  BY <1>2, BadOfGroup DEF Refused
<1>3. CASE ReadBitBatch
  BY <1>2, <1>3, BadKept, ReadingType DEF ReadBitBatch, Answered, GroupLoops
<1>4. CASE ReadWordBatch
  BY <1>4, BadKept DEF ReadWordBatch, Answered, Refused
<1>5. CASE ReadSplit
  BY <1>2, <1>5, BadKept, ReadingType DEF ReadSplit, Answered, GroupLoops
<1>6. CASE ReadIndividual
  BY <1>2, <1>6, BadKept, ReadingType DEF ReadIndividual, Answered, GroupLoops
<1>7. CASE ParseValue
  BY <1>7, BadParsed
<1> QED  BY <1>1, <1>3, <1>4, <1>5, <1>6, <1>7 DEF Next

(* A failure stays in its group: a value is BAD only if a request of the   *)
(* point's own group failed, or the point is too short for its type.       *)
THEOREM FailuresStayInTheirGroup == Spec => []BadOnlyForCause
<1>1. Init => BadOnlyForCause
  BY DEF Init, BadOnlyForCause, Elements
<1> QED
  BY <1>1, TypeInvariant, RowsInvariant, BadInductive, PTL DEF Spec

-----------------------------------------------------------------------------
(* Groups are runs.  In a list that stays in range no sum wraps round.     *)
LEMMA PlaceInRange ==
    ASSUME TypeInv, RowsInv, InRange(points),
           NEW k \in DOMAIN groups, NEW l \in DOMAIN groups[k].Points
    PROVE  /\ groups[k].Points[l] \in Points
           /\ End(groups[k].Points[l]) \in Nat
           /\ End(groups[k].Points[l]) < AddressSpace
<1>1. groups[k].Points[l] = points[Row(k, l)] /\ Row(k, l) \in 1..n
  BY DEF RowsInv
<1>2. Row(k, l) \in DOMAIN points
  BY <1>1 DEF TypeInv, TypeOK
<1>3. groups[k].Points[l] \in Points
  BY PlaceTypes
<1> QED  BY <1>1, <1>2, <1>3, PointFields DEF InRange, Elements, End

LEMMA NewGroupIsRun ==
    ASSUME NEW p \in Points
    PROVE  IsRun(NewGroup(p))
<1>1. /\ NewGroup(p).Points = <<p>> /\ NewGroup(p).StartAddress = p.Address
      /\ NewGroup(p).TotalLength = p.Length
  BY DEF NewGroup
<1>2. DOMAIN <<p>> = {1} /\ Len(<<p>>) = 1 /\ <<p>>[1] = p
  OBVIOUS
<1>3. p.Address \in Nat /\ p.Length \in Nat
  BY PointFields
<1> QED  BY <1>1, <1>2, <1>3 DEF IsRun, End

LEMMA MergeIsRun ==
    ASSUME NEW grp \in GroupRecords, NEW p \in Points, IsRun(grp),
           grp.Points # <<>>, Continues(grp, p),
           End(p) < AddressSpace, End(grp.Points[Len(grp.Points)]) < AddressSpace
    PROVE  IsRun(Merge(grp, p))
<1> DEFINE s == grp.Points
           m == Len(s)
           new == Merge(grp, p)
           t == new.Points
<1>1. /\ s \in Seq(Points) /\ grp.StartAddress \in Nat /\ grp.TotalLength \in Nat
      /\ p.Address \in Nat /\ p.Length \in Nat
  BY PointFields, UInt16IsNat DEF GroupRecords
<1>2. m \in Nat /\ m >= 1 /\ DOMAIN s = 1..m /\ \A l \in 1..m : s[l] \in Points
  BY <1>1
<1>3. \A l \in 1..m : /\ s[l].Address \in Nat /\ s[l].Length \in Nat
                      /\ End(s[l]) \in Nat /\ s[l].Address <= End(s[l])
  <2> TAKE l \in 1..m
  <2>1. s[l].Address \in Nat /\ s[l].Length \in Nat
    BY <1>2, PointFields
  <2>2. End(s[l]) = s[l].Address + s[l].Length
    BY DEF End
  <2> HIDE DEF s
  <2> QED  BY ONLY <2>1, <2>2
<1>4. p.Address = End(s[m])
  <2>1. Plus(s[m].Address, s[m].Length) = p.Address
    BY DEF Continues
  <2>2. Plus(s[m].Address, s[m].Length) = s[m].Address + s[m].Length
    BY <1>2, <1>3, PlusSmall DEF End
  <2> QED  BY <2>1, <2>2 DEF End
<1>5. /\ DOMAIN t = 1..m + 1 /\ Len(t) = m + 1 /\ t[m + 1] = p
      /\ \A l \in 1..m : t[l] = s[l]
  <2>1. t = Append(s, p)
    BY MergeFields
  <2> HIDE DEF s, t
  <2> QED  BY <1>1, <2>1
<1>6. /\ grp.StartAddress = s[1].Address
      /\ grp.StartAddress + grp.TotalLength = End(s[m])
      /\ \A l \in 1..m : /\ grp.StartAddress <= s[l].Address
                         /\ End(s[l]) <= grp.StartAddress + grp.TotalLength
      /\ \A l, o \in 1..m : o = l + 1 => s[o].Address = End(s[l])
      /\ \A l, o \in 1..m : l < o => s[l].Address <= s[o].Address
      /\ \A a \in grp.StartAddress..(grp.StartAddress + grp.TotalLength - 1) :
            \E l \in 1..m : a \in s[l].Address..(End(s[l]) - 1)
  BY <1>2 DEF IsRun
<1>7. new.StartAddress = grp.StartAddress /\ new.TotalLength = grp.TotalLength + p.Length
  <2>1. grp.TotalLength + p.Length < AddressSpace
    BY <1>1, <1>2, <1>4, <1>6, BatchReadAssumption DEF End
  <2> QED  BY <1>1, <2>1, MergeFields, PlusSmall
<1>8. End(p) = p.Address + p.Length
  BY DEF End
<1> HIDE DEF s, m, t, new
<1>9. \A l \in 1..m + 1 : l \in 1..m \/ l = m + 1
  BY <1>2
<1>10. /\ new.StartAddress = t[1].Address
       /\ new.StartAddress + new.TotalLength = End(t[m + 1])
  BY <1>1, <1>2, <1>4, <1>5, <1>6, <1>7, <1>8
<1>11. ASSUME NEW l \in 1..m + 1
       PROVE  /\ new.StartAddress <= t[l].Address
              /\ End(t[l]) <= new.StartAddress + new.TotalLength
  <2>1. CASE l \in 1..m
    <3>1. /\ End(s[l]) <= grp.StartAddress + grp.TotalLength
          /\ grp.StartAddress <= s[l].Address
      BY <1>6, <2>1
    <3>2. t[l] = s[l] /\ End(s[l]) \in Nat
      BY <1>3, <1>5, <2>1
    <3> QED  BY ONLY <1>1, <1>7, <3>1, <3>2
  <2>2. CASE l = m + 1
    <3>1. grp.StartAddress <= p.Address
      BY <1>1, <1>2, <1>4, <1>6
    <3> QED  BY <1>1, <1>5, <1>7, <1>8, <1>10, <2>2, <3>1
  <2> QED  BY <1>9, <2>1, <2>2
<1>12. ASSUME NEW l \in 1..m + 1, NEW o \in 1..m + 1, o = l + 1
       PROVE  t[o].Address = End(t[l])
  <2>1. l \in 1..m
    BY <1>2, <1>12
  <2>2. CASE o \in 1..m
    BY <1>5, <1>6, <1>12, <2>1, <2>2
  <2>3. CASE o = m + 1
    <3>1. l = m
      BY <1>2, <1>12, <2>3
    <3> QED  BY <1>4, <1>5, <2>1, <2>3, <3>1
  <2> QED  BY <1>9, <2>2, <2>3
<1>13. ASSUME NEW l \in 1..m + 1, NEW o \in 1..m + 1, l < o
       PROVE  t[l].Address <= t[o].Address
  <2>1. l \in 1..m
    BY <1>2, <1>13
  <2>2. CASE o \in 1..m
    BY <1>5, <1>6, <1>13, <2>1, <2>2
  <2>3. CASE o = m + 1
    <3>1. End(s[l]) <= p.Address /\ s[l].Address <= End(s[l])
      BY <1>3, <1>4, <1>6, <2>1
    <3> QED  BY <1>1, <1>3, <1>5, <2>1, <2>3, <3>1
  <2> QED  BY <1>9, <2>2, <2>3
<1>14. ASSUME NEW a \in new.StartAddress..(new.StartAddress + new.TotalLength - 1)
       PROVE  \E l \in 1..m + 1 : a \in t[l].Address..(End(t[l]) - 1)
  <2>1. grp.StartAddress + grp.TotalLength = p.Address
    BY <1>4, <1>6
  <2>2. CASE a < p.Address
    <3>1. a \in grp.StartAddress..(grp.StartAddress + grp.TotalLength - 1)
      BY <1>1, <1>7, <2>1, <2>2
    <3>2. PICK l \in 1..m : a \in s[l].Address..(End(s[l]) - 1)
      BY <1>6, <3>1
    <3>3. l \in 1..m + 1
      BY <1>2
    <3> QED  BY <1>5, <3>2, <3>3
  <2>3. CASE ~(a < p.Address)
    <3>1. a \in p.Address..(End(p) - 1)
      <4>1. new.StartAddress + new.TotalLength = End(p)
        BY <1>1, <1>7, <1>8, <2>1
      <4>2. /\ new.StartAddress \in Nat /\ new.TotalLength \in Nat
            /\ p.Address \in Nat /\ End(p) \in Nat
        BY <1>1, <1>7, <1>8
      <4>3. a \in Int /\ a < new.StartAddress + new.TotalLength
        BY ONLY <1>14, <4>2
      <4> QED  BY ONLY <4>1, <4>2, <4>3, <2>3
    <3>2. m + 1 \in 1..m + 1
      BY <1>2
    <3> QED  BY <1>5, <3>1, <3>2
  <2> QED  BY <2>2, <2>3
<1>15. /\ \A l, o \in DOMAIN t : o = l + 1 => t[o].Address = End(t[l])
       /\ \A l, o \in DOMAIN t : l < o => t[l].Address <= t[o].Address
  BY <1>5, <1>12, <1>13
<1> QED
  BY <1>5, <1>10, <1>11, <1>14, <1>15 DEF IsRun, t, new

LEMMA GroupPointRuns ==
    ASSUME TypeInv, RowsInv, RunInv, GroupPoint
    PROVE  RunInv'
<1> SUFFICES ASSUME InRange(points), NEW k \in DOMAIN groups'
             PROVE  IsRun(groups'[k])
  BY DEF RunInv, GroupPoint, IsRun, InRange, Elements
<1> DEFINE p == points[n + 1]
<1>1. groups \in Seq(GroupRecords) /\ p \in Points /\ n + 1 \in DOMAIN points
  BY GroupPointEffect DEF TypeInv, TypeOK, GroupRecords
<1>2. \A m \in DOMAIN groups : IsRun(groups[m])
  BY DEF RunInv
<1>3. End(p) < AddressSpace
  BY <1>1 DEF InRange, Elements, End
<1> HIDE DEF p
<1>4. CASE groups' = Append(groups, NewGroup(p))
  <2>1. (k \in DOMAIN groups /\ groups'[k] = groups[k]) \/ groups'[k] = NewGroup(p)
    BY <1>1, <1>4
  <2> QED  BY <1>1, <1>2, <2>1, NewGroupIsRun
<1>5. ASSUME NEW m \in DOMAIN groups, Continues(groups[m], p),
             groups' = [groups EXCEPT ![m] = Merge(@, p)]
      PROVE  IsRun(groups'[k])
  <2>1. (k \in DOMAIN groups /\ groups'[k] = groups[k])
            \/ groups'[k] = Merge(groups[m], p)
    BY <1>1, <1>5
  <2>2. groups[m] \in GroupRecords
    BY <1>1
  <2>3. groups[m].Points \in Seq(Points) /\ groups[m].Points # <<>>
    BY <2>2 DEF GroupRecords, TypeInv, NonEmptyGroups
  <2>4. Len(groups[m].Points) \in DOMAIN groups[m].Points
    BY <2>3
  <2>5. End(groups[m].Points[Len(groups[m].Points)]) < AddressSpace
    BY <2>4, PlaceInRange
  <2> QED  BY <1>1, <1>2, <1>3, <1>5, <2>1, <2>2, <2>3, <2>5, MergeIsRun
<1> QED  BY <1>4, <1>5, GroupPointEffect DEF p

(* The points of a run are sorted, so nothing is exchanged.                *)
LEMMA SortRuns ==
    ASSUME TypeInv, RowsInv, RunInv, SortPoints
    PROVE  RunInv'
<1>0. points' = points
  BY DEF SortPoints
<1> SUFFICES ASSUME InRange(points), NEW k \in DOMAIN groups'
             PROVE  IsRun(groups'[k])
  BY <1>0 DEF RunInv
<1>1. /\ g \in DOMAIN groups /\ k \in DOMAIN groups
      /\ k # g => groups'[k] = groups[k]
      /\ IsRun(groups[k]) /\ IsRun(Group)
  BY SortEffect DEF RunInv, Group
<1>2. CASE k = g
  <2>1. ~(Group.Points[i].Address > Group.Points[i + j].Address)
    <3>1. /\ i < i + j /\ i \in DOMAIN Group.Points /\ i + j \in DOMAIN Group.Points
      BY SortEffect
    <3>2. Group.Points[i].Address <= Group.Points[i + j].Address
      BY <1>1, <3>1 DEF IsRun
    <3>3. Group.Points[i].Address \in Nat /\ Group.Points[i + j].Address \in Nat
      BY <1>1, <3>1, GroupFields, PointFields
    <3> QED  BY <3>2, <3>3
  <2>2. /\ groups'[k].Points = Group.Points
        /\ groups'[k].StartAddress = Group.StartAddress
        /\ groups'[k].TotalLength = Group.TotalLength
    BY <1>2, <2>1, SortEffect DEF Exchange
  <2> QED  BY <1>1, <2>2 DEF IsRun
<1> QED  BY <1>1, <1>2

LEMMA RunInductive == TypeInv /\ RowsInv /\ RunInv /\ [Next]_vars => RunInv'
<1> SUFFICES ASSUME TypeInv, RowsInv, RunInv, [Next]_vars PROVE RunInv'
  OBVIOUS
<1>1. CASE GroupPoint
  BY <1>1, GroupPointRuns
<1>2. CASE SortPoints
  BY <1>2, SortRuns
<1>3. CASE Kept
  BY <1>3 DEF Kept, RunInv, InRange, Elements, IsRun, End
<1> QED
  BY <1>1, <1>2, <1>3
  DEF Next, vars, Kept, NextToSort, StartSplit, ReadBitBatch, ReadWordBatch,
      ReadSplit, ReadIndividual, ParseValue, GroupParsed

LEMMA RunInvariant == Spec => []RunInv
<1>1. Init => RunInv
  BY DEF Init, RunInv
<1> QED
  BY <1>1, TypeInvariant, RowsInvariant, RunInductive, PTL DEF Spec

-----------------------------------------------------------------------------
(* Reading.  The content of a run can be put together and cut up.          *)
LEMMA ContentConcat ==
    ASSUME NEW t \in RegisterTypes, NEW a \in Nat, NEW x \in Nat, NEW y \in Nat
    PROVE  Content(t, a, x) \o Content(t, a + x, y) = Content(t, a, x + y)
<1> DEFINE u == Content(t, a, x)
           v == Content(t, a + x, y)
           w == Content(t, a, x + y)
<1>1. u \in Seq(Registers) /\ v \in Seq(Registers) /\ Len(u) = x /\ Len(v) = y
  BY ContentType
<1>2. \A k \in 1..x : u[k] = w[k]
  BY DEF Content
<1>3. \A k \in 1..y : v[k] = w[x + k]
  <2> TAKE k \in 1..y
  <2>1. a + x + (k - 1) = a + (x + k - 1) /\ x + k \in 1..x + y
    OBVIOUS
  <2> QED  BY <2>1 DEF Content, Plus
<1>4. w \in Seq(Registers) /\ Len(w) = x + y
  BY ContentType
<1> HIDE DEF u, v, w
<1>5. /\ DOMAIN (u \o v) = 1..x + y
      /\ \A k \in 1..x : (u \o v)[k] = u[k]
      /\ \A k \in 1..y : (u \o v)[x + k] = v[k]
  <2>1. u \in Seq(Registers)
    BY <1>1
  <2>2. v \in Seq(Registers)
    BY <1>1
  <2>3. /\ DOMAIN (u \o v) = 1..Len(u) + Len(v)
        /\ \A k \in 1..Len(u) : (u \o v)[k] = u[k]
        /\ \A k \in 1..Len(v) : (u \o v)[Len(u) + k] = v[k]
    BY <2>1, <2>2, ConcatFields
  <2> QED  BY <1>1, <2>3
<1>6. \A k \in 1..x + y : (u \o v)[k] = w[k]
  <2> TAKE k \in 1..x + y
  <2>1. CASE k \in 1..x
    BY <1>2, <1>5, <2>1
  <2>2. CASE k \notin 1..x
    <3>1. k - x \in 1..y /\ k = x + (k - x)
      BY <2>2
    <3> QED  BY <1>3, <1>5, <3>1
  <2> QED  BY <2>1, <2>2
<1>7. u \o v \in Seq(Registers)
  BY <1>1
<1>8. u \o v = w
  BY <1>4, <1>5, <1>6, <1>7
<1> QED  BY <1>8 DEF u, v, w

LEMMA ContentEmpty ==
    ASSUME NEW t \in RegisterTypes, NEW a \in Nat
    PROVE  Content(t, a, 0) = <<>>
BY DEF Content

(* The group at hand as a run.                                             *)
LEMMA GroupRun ==
    ASSUME TypeInv, RowsInv, RunInv, InRange(points), g \in DOMAIN groups
    PROVE  /\ GroupEnd \in Nat /\ GroupEnd < AddressSpace
           /\ Group.StartAddress <= GroupEnd
           /\ Group.Points[1].Address = Group.StartAddress
           /\ End(Group.Points[Len(Group.Points)]) = GroupEnd
           /\ \A l \in 1..Len(Group.Points) :
                 /\ Group.Points[l].Address \in Nat /\ Group.Points[l].Length \in Nat
                 /\ End(Group.Points[l]) = Group.Points[l].Address
                                               + Group.Points[l].Length
                 /\ Group.StartAddress <= Group.Points[l].Address
                 /\ End(Group.Points[l]) <= GroupEnd
                 /\ l + 1 \in 1..Len(Group.Points) =>
                       Group.Points[l + 1].Address = End(Group.Points[l])
                 /\ \/ l + 1 \in 1..Len(Group.Points)
                    \/ End(Group.Points[l]) = GroupEnd
<1>1. IsRun(Group)
  BY DEF RunInv, Group
<1>2. /\ Group.Points \in Seq(Points) /\ Len(Group.Points) \in Nat
      /\ Len(Group.Points) >= 1 /\ DOMAIN Group.Points = 1..Len(Group.Points)
      /\ Group.StartAddress \in Nat /\ Group.TotalLength \in Nat
      /\ \A l \in DOMAIN Group.Points : Group.Points[l] \in Points
  BY GroupFields
<1>3. End(Group.Points[Len(Group.Points)]) = GroupEnd
  BY <1>1 DEF IsRun, GroupEnd
<1>4. GroupEnd < AddressSpace
  <2>1. Len(Group.Points) \in DOMAIN Group.Points
    BY <1>2
  <2>2. End(Group.Points[Len(Group.Points)]) < AddressSpace
    BY <2>1, PlaceInRange DEF Group
  <2> QED  BY <1>3, <2>2
<1>5. GroupEnd \in Nat /\ Group.StartAddress <= GroupEnd
  BY <1>2 DEF GroupEnd
<1>6. ASSUME NEW l \in 1..Len(Group.Points)
      PROVE  /\ Group.Points[l].Address \in Nat /\ Group.Points[l].Length \in Nat
             /\ Group.StartAddress <= Group.Points[l].Address
             /\ End(Group.Points[l]) <= GroupEnd
  BY <1>1, <1>2, PointFields DEF IsRun, GroupEnd
<1>7. ASSUME NEW l \in 1..Len(Group.Points)
      PROVE  /\ l + 1 \in 1..Len(Group.Points) =>
                   Group.Points[l + 1].Address = End(Group.Points[l])
             /\ \/ l + 1 \in 1..Len(Group.Points)
                \/ End(Group.Points[l]) = GroupEnd
  <2>1. l + 1 \in 1..Len(Group.Points) \/ l = Len(Group.Points)
    BY <1>2
  <2> QED  BY <1>1, <1>2, <1>3, <2>1 DEF IsRun
<1> QED  BY <1>1, <1>3, <1>4, <1>5, <1>6, <1>7 DEF IsRun, End

(* An answer to a request that starts where the last one ended.            *)
LEMMA AnswerAppends ==
    ASSUME NEW t \in RegisterTypes, NEW b \in Nat, NEW x \in Nat,
           NEW r, r.len \in Nat, r.type = t, r.addr = b + x,
           registers = Content(t, b, x), Answered(r)
    PROVE  registers' = Content(t, b, x + r.len)
<1>1. registers' = Content(t, b, x) \o Content(t, b + x, r.len)
  BY DEF Answered
<1>2. Content(t, b, x) \o Content(t, b + x, r.len) = Content(t, b, x + r.len)
  BY ContentConcat
<1> QED  BY <1>1, <1>2

LEMMA AnswerExtends ==
    ASSUME TypeInv, g \in DOMAIN groups, NEW a \in Nat, ReadTo(a),
           NEW r \in Requests, r.type = Group.RegisterType, r.addr = a, Answered(r)
    PROVE  registers' = Content(Group.RegisterType, Group.StartAddress,
                                a + r.len - Group.StartAddress)
<1> DEFINE t == Group.RegisterType
           b == Group.StartAddress
           x == a - b
<1>1. t \in RegisterTypes /\ b \in Nat /\ r.len \in Nat
  BY GroupFields, UInt16IsNat DEF Requests
<1>2. x \in Nat /\ a = b + x
  BY <1>1 DEF ReadTo
<1>3. registers = Content(t, b, x) /\ r.type = t
  BY DEF ReadTo
<1> HIDE DEF t, b, x
<1>4. registers' = Content(t, b, x + r.len)
  BY <1>1, <1>2, <1>3, AnswerAppends
<1>5. a + r.len - b = x + r.len
  BY <1>1, <1>2
<1>6. registers' = Content(t, b, a + r.len - b)
  BY <1>4, <1>5
<1> QED  BY <1>6 DEF t, b

LEMMA ReadVacuous ==
    ASSUME phase' \notin {"split", "individual", "parse"}
    PROVE  ReadInv'
BY DEF ReadInv

(* The loop that cuts the registers begins with the first point.           *)
LEMMA ParseBegins ==
    ASSUME TypeInv, RowsInv, RunInv, InRange(points), g \in DOMAIN groups, Kept,
           Parse, registers' = Content(Group.RegisterType, Group.StartAddress,
                                       GroupEnd - Group.StartAddress)
    PROVE  ReadInv'
<1>1. /\ phase' = "parse" /\ i' = 1 /\ j' = 0 /\ g' = g /\ Group' = Group
      /\ GroupEnd' = GroupEnd
  BY DEF Parse, Kept, Group, GroupEnd
<1>2. GroupEnd >= Group.StartAddress /\ Group.StartAddress \in Nat
      /\ Group.Points[1].Address = Group.StartAddress
  BY GroupRun, GroupFields
<1>3. ReadTo(GroupEnd)'
  BY <1>1, <1>2 DEF ReadTo
<1> QED  BY <1>1, <1>2, <1>3 DEF ReadInv

LEMMA StartSplitReads ==
    ASSUME TypeInv, StartSplit
    PROVE  ReadInv'
<1>1. /\ g \in DOMAIN groups /\ phase' = "split" /\ registers' = <<>>
      /\ Group' = Group /\ start' = Group.StartAddress
      /\ remaining' = Group.TotalLength
  BY ReadingType DEF StartSplit, GroupLoops, TypeInv, LoopInv, Group
<1>2. /\ Group.RegisterType \in RegisterTypes /\ Group.StartAddress \in Nat
      /\ Group.TotalLength \in Nat
  BY <1>1, GroupFields
<1>3. registers' = Content(Group.RegisterType, Group.StartAddress,
                           start' - Group.StartAddress)
  <2>1. start' - Group.StartAddress = 0
    BY <1>1, <1>2
  <2> QED  BY <1>1, <1>2, <2>1, ContentEmpty
<1>4. ReadTo(start)'
  BY <1>1, <1>2, <1>3 DEF ReadTo
<1> QED  BY <1>1, <1>4 DEF ReadInv, GroupEnd

(* The request for the whole group begins at its start.                    *)
LEMMA WholeAnswered ==
    ASSUME TypeInv, phase = "read", Answered(Whole)
    PROVE  registers' = Content(Group.RegisterType, Group.StartAddress,
                                GroupEnd - Group.StartAddress)
<1>1. g \in DOMAIN groups /\ registers = <<>> /\ Whole \in Requests
  BY ReadingType, RequestType DEF GroupLoops, TypeInv, LoopInv
<1>2. /\ Group.RegisterType \in RegisterTypes /\ Group.StartAddress \in Nat
      /\ Group.TotalLength \in Nat
  BY <1>1, GroupFields
<1>3. ReadTo(Group.StartAddress)
  <2>1. Group.StartAddress - Group.StartAddress = 0
    BY <1>2
  <2> QED  BY <1>1, <1>2, <2>1, ContentEmpty DEF ReadTo
<1>4. /\ Whole.type = Group.RegisterType /\ Whole.addr = Group.StartAddress
      /\ Whole.len = Group.TotalLength
  BY DEF Whole
<1> HIDE DEF Whole
<1>5. registers' = Content(Group.RegisterType, Group.StartAddress,
                           Group.StartAddress + Whole.len - Group.StartAddress)
  BY <1>1, <1>2, <1>3, <1>4, AnswerExtends
<1>6. Group.StartAddress + Whole.len = GroupEnd
  BY <1>2, <1>4 DEF GroupEnd
<1> QED  BY <1>2, <1>4, <1>5, <1>6

LEMMA WordBatchReads ==
    ASSUME TypeInv, RowsInv, RunInv, InRange(points), ReadWordBatch
    PROVE  ReadInv'
<1>1. g \in DOMAIN groups /\ Kept /\ phase = "read" /\ registers = <<>>
  BY ReadingType DEF ReadWordBatch, Kept, GroupLoops, TypeInv, LoopInv
<1>2. CASE Answered(Whole) /\ Parse
  BY <1>1, <1>2, WholeAnswered, ParseBegins
<1>3. CASE /\ phase' = "individual"
           /\ i' = 1
           /\ j' = 0
           /\ UNCHANGED <<g, registers, start, remaining>>
  <2>1. /\ Group' = Group /\ Group.RegisterType \in RegisterTypes
        /\ Group.StartAddress \in Nat /\ Len(Group.Points) \in Nat
        /\ Len(Group.Points) >= 1
    BY <1>1, <1>3, GroupFields DEF Group, Kept
  <2>2. /\ Group.Points[1].Address = Group.StartAddress
        /\ Group.Points[1].Length \in Nat
    BY <1>1, <2>1, GroupRun
  <2>3. ReadTo(Group.Points[i].Address + j)'
    <3> DEFINE a == Group.Points[1].Address + 0
    <3>1. a - Group.StartAddress = 0 /\ a >= Group.StartAddress
      BY <2>1, <2>2
    <3>2. registers' = Content(Group.RegisterType, Group.StartAddress,
                               a - Group.StartAddress)
      BY <1>1, <1>3, <2>1, <3>1, ContentEmpty
    <3>3. (Group.Points[i].Address + j)' = a
      BY <1>3, <2>1
    <3> HIDE DEF a
    <3> QED  BY <2>1, <3>1, <3>2, <3>3 DEF ReadTo
  <2> QED  BY <1>3, <2>1, <2>2, <2>3 DEF ReadInv
<1> QED  BY <1>2, <1>3 DEF ReadWordBatch

LEMMA SplitReads ==
    ASSUME TypeInv, RowsInv, RunInv, InRange(points), ReadInv, ReadSplit
    PROVE  ReadInv'
<1>1. g \in DOMAIN groups /\ Kept /\ phase = "split" /\ SubBatch \in Requests
  BY ReadingType, RequestType DEF ReadSplit, Kept, GroupLoops
<1>2. /\ ReadTo(start) /\ start + remaining = GroupEnd
      /\ start \in Nat /\ remaining \in Nat /\ BatchLength \in Nat
      /\ BatchLength <= remaining
      /\ Group.StartAddress \in Nat /\ GroupEnd \in Nat /\ GroupEnd < AddressSpace
  BY <1>1, ReadingType, UInt16IsNat, RequestType, GroupFields, GroupRun DEF ReadInv
<1>3. CASE remaining = 0 /\ Parse /\ UNCHANGED registers
  <2>1. start = GroupEnd
    BY <1>2, <1>3
  <2> QED  BY <1>1, <1>2, <1>3, <2>1, ParseBegins DEF ReadTo
<1>4. CASE /\ Answered(SubBatch)
           /\ start' = Plus(start, BatchLength)
           /\ remaining' = remaining - BatchLength
           /\ UNCHANGED <<phase, g>>
  <2>1. start' = start + BatchLength
    BY <1>2, <1>4, PlusSmall, BatchReadAssumption
  <2>2. /\ SubBatch.type = Group.RegisterType /\ SubBatch.addr = start
        /\ SubBatch.len = BatchLength
    BY DEF SubBatch
  <2> HIDE DEF SubBatch
  <2>3. registers' = Content(Group.RegisterType, Group.StartAddress,
                             start + SubBatch.len - Group.StartAddress)
    BY <1>1, <1>2, <1>4, <2>2, AnswerExtends
  <2>4. Group' = Group /\ GroupEnd' = GroupEnd
    BY <1>1, <1>4 DEF Kept, Group, GroupEnd
  <2>5. start' >= Group.StartAddress
    BY <1>2, <2>1 DEF ReadTo
  <2>6. ReadTo(start)'
    <3>1. start + SubBatch.len = start'
      BY <2>1, <2>2
    <3>2. registers' = Content(Group.RegisterType, Group.StartAddress,
                               start' - Group.StartAddress)
      BY <1>2, <2>1, <2>2, <2>3, <3>1
    <3> QED  BY <2>4, <2>5, <3>2 DEF ReadTo
  <2>7. start' + remaining' = GroupEnd
    BY <1>2, <1>4, <2>1
  <2> QED  BY <1>1, <1>4, <2>4, <2>6, <2>7 DEF ReadInv
<1>5. CASE GroupBad
  BY <1>5, ReadVacuous DEF GroupBad, NextGroup
<1> QED  BY <1>3, <1>4, <1>5 DEF ReadSplit

LEMMA IndividualReads ==
    ASSUME TypeInv, RowsInv, RunInv, InRange(points), ReadInv, ReadIndividual
    PROVE  ReadInv'
<1> DEFINE p == Group.Points[i]
<1>1. /\ g \in DOMAIN groups /\ Kept /\ phase = "individual"
      /\ i \in Nat /\ i >= 1 /\ j \in Nat
      /\ Len(Group.Points) \in Nat /\ DOMAIN Group.Points = 1..Len(Group.Points)
      /\ Group.StartAddress \in Nat /\ GroupEnd \in Nat /\ GroupEnd < AddressSpace
  BY ReadingType, GroupFields, GroupRun DEF ReadIndividual, Kept, GroupLoops
<1>2. CASE i > Len(Group.Points) /\ Parse /\ UNCHANGED registers
  <2>1. ReadTo(GroupEnd)
    BY <1>1, <1>2 DEF ReadInv
  <2> QED  BY <1>1, <1>2, <2>1, ParseBegins DEF ReadTo
<1>3. ASSUME i <= Len(Group.Points)
      PROVE  /\ i \in 1..Len(Group.Points) /\ Single \in Requests
             /\ p.Address \in Nat /\ p.Length \in Nat
             /\ End(p) = p.Address + p.Length /\ End(p) <= GroupEnd
             /\ j <= p.Length /\ ReadTo(p.Address + j)
             /\ i + 1 \in 1..Len(Group.Points) => Group.Points[i + 1].Address = End(p)
             /\ i + 1 \in 1..Len(Group.Points) \/ End(p) = GroupEnd
  <2>1. i \in 1..Len(Group.Points)
    BY <1>1, <1>3
  <2>2. Single \in Requests
    BY <1>1, <2>1, RequestType
  <2>3. j <= p.Length /\ ReadTo(p.Address + j)
    BY <1>1, <1>3 DEF ReadInv
  <2> QED  BY <1>1, <2>1, <2>2, <2>3, GroupRun
<1>4. CASE /\ i <= Len(Group.Points)
           /\ j = p.Length
           /\ i' = i + 1
           /\ j' = 0
           /\ UNCHANGED <<phase, g, registers>>
  <2>1. Group' = Group /\ GroupEnd' = GroupEnd
    BY <1>1, <1>4 DEF Kept, Group, GroupEnd
  <2>2. ReadTo(End(p))
    BY <1>3, <1>4
  <2>3. CASE i + 1 \in 1..Len(Group.Points)
    <3>1. /\ Group.Points[i + 1].Address + 0 = End(p)
          /\ Group.Points[i + 1].Length \in Nat
      BY <1>1, <1>3, <1>4, <2>3, GroupRun
    <3>2. ReadTo(Group.Points[i].Address + j)'
      BY <1>4, <2>1, <2>2, <3>1 DEF ReadTo
    <3>3. j' <= Group.Points[i'].Length /\ i' <= Len(Group.Points)
      BY <1>1, <1>4, <2>3, <3>1
    <3> QED  BY <1>1, <1>4, <2>1, <3>2, <3>3 DEF ReadInv
  <2>4. CASE i + 1 \notin 1..Len(Group.Points)
    <3>1. End(p) = GroupEnd /\ i' > Len(Group.Points)
      BY <1>1, <1>3, <1>4, <2>4
    <3>2. ReadTo(GroupEnd)'
      BY <1>4, <2>1, <2>2, <3>1 DEF ReadTo
    <3>3. ~(i' <= Len(Group.Points))
      BY <1>1, <1>4, <3>1
    <3> QED  BY <1>1, <1>4, <2>1, <3>2, <3>3 DEF ReadInv
  <2> QED  BY <2>3, <2>4
<1>5. CASE /\ i <= Len(Group.Points)
           /\ j < p.Length
           /\ Answered(Single)
           /\ j' = j + 1
           /\ UNCHANGED <<phase, g, i>>
  <2>1. Group' = Group
    BY <1>1, <1>5 DEF Kept, Group
  <2>2. Plus(p.Address, j) = p.Address + j
    <3>1. p.Address + j < AddressSpace
      BY <1>1, <1>3, <1>5, BatchReadAssumption
    <3> QED  BY <1>1, <1>3, <1>5, <3>1, PlusSmall
  <2>3. Single.type = Group.RegisterType /\ Single.addr = p.Address + j /\ Single.len = 1
    BY <2>2 DEF Single
  <2> HIDE DEF Single, p
  <2>4. p.Address + j \in Nat
    BY <1>1, <1>3, <1>5
  <2>5. registers' = Content(Group.RegisterType, Group.StartAddress,
                             p.Address + j + Single.len - Group.StartAddress)
    BY <1>1, <1>3, <1>5, <2>3, <2>4, AnswerExtends
  <2>6. p.Address \in Nat /\ p.Address + j >= Group.StartAddress
    BY <1>3, <1>5 DEF ReadTo
  <2>7. ReadTo(Group.Points[i].Address + j)'
    <3> DEFINE a == p.Address + j + Single.len
    <3>1. (Group.Points[i].Address + j)' = a
      <4>1. /\ Group' = Group /\ i' = i /\ j' = j + 1
            /\ j \in Nat /\ Single.len = 1
        BY <1>1, <1>5, <2>1, <2>3
      <4>2. (Group.Points[i].Address + j)' = p.Address + (j + 1)
        BY ONLY <4>1 DEF p
      <4> QED
        BY ONLY <4>1, <4>2, <2>6
    <3>2. a >= Group.StartAddress
      BY <1>1, <2>3, <2>4, <2>6
    <3>3. registers' = Content(Group.RegisterType, Group.StartAddress,
                               a - Group.StartAddress)
      BY <1>1, <2>3, <2>4, <2>5
    <3> HIDE DEF a
    <3> QED  BY <2>1, <3>1, <3>2, <3>3 DEF ReadTo
  <2>8. j' <= p.Length
    BY <1>1, <1>3, <1>5
  <2> QED  BY <1>1, <1>5, <2>1, <2>7, <2>8 DEF ReadInv, p
<1>6. CASE GroupBad
  BY <1>6, ReadVacuous DEF GroupBad, NextGroup
<1> QED  BY <1>2, <1>4, <1>5, <1>6 DEF ReadIndividual

LEMMA BitBatchReads ==
    ASSUME TypeInv, RowsInv, RunInv, InRange(points), ReadBitBatch
    PROVE  ReadInv'
<1>1. g \in DOMAIN groups /\ Kept /\ phase = "read"
  BY ReadingType DEF ReadBitBatch, Kept, GroupLoops
<1>2. CASE Answered(Whole) /\ Parse
  BY <1>1, <1>2, WholeAnswered, ParseBegins
<1>3. CASE GroupBad
  BY <1>3, ReadVacuous DEF GroupBad, NextGroup
<1> QED  BY <1>2, <1>3 DEF ReadBitBatch

(* The offset stays that of the next point, since the points adjoin.       *)
LEMMA ParseValueReads ==
    ASSUME TypeInv, RowsInv, RunInv, InRange(points), ReadInv, ParseValue
    PROVE  ReadInv'
<1> DEFINE p == Group.Points[i]
<1>1. /\ i \in DOMAIN Group.Points /\ g \in DOMAIN groups /\ Kept /\ phase = "parse"
      /\ UNCHANGED <<g, registers>>
  BY ParseEffect
<1>2. CASE phase' = "panic"
  BY <1>2, ReadVacuous
<1>3. CASE phase' = phase /\ i' = i + 1 /\ j' = j + p.Length
  <2>1. /\ Group' = Group /\ GroupEnd' = GroupEnd
        /\ Len(Group.Points) \in Nat /\ i \in 1..Len(Group.Points)
        /\ Group.StartAddress \in Nat
    BY <1>1, GroupFields DEF Kept, Group, GroupEnd
  <2>2. ReadTo(GroupEnd) /\ j = p.Address - Group.StartAddress
    BY <1>1, <2>1 DEF ReadInv
  <2>3. ReadTo(GroupEnd)'
    BY <1>1, <2>1, <2>2 DEF ReadTo
  <2>4. ASSUME i' <= Len(Group.Points)
        PROVE  j' = Group.Points[i'].Address - Group.StartAddress
    <3>1. i + 1 \in 1..Len(Group.Points)
      BY <1>3, <2>1, <2>4
    <3>2. /\ Group.Points[i + 1].Address = p.Address + p.Length
          /\ p.Address \in Nat /\ p.Length \in Nat
      BY <1>1, <2>1, <3>1, GroupRun
    <3>3. Group.Points[i'].Address = p.Address + p.Length
      BY <1>3, <3>2
    <3>4. j' = (p.Address - Group.StartAddress) + p.Length
      BY <1>3, <2>2
    <3> QED  BY ONLY <2>1, <3>2, <3>3, <3>4
  <2> QED  BY <1>1, <1>3, <2>1, <2>3, <2>4 DEF ReadInv
<1> QED  BY <1>2, <1>3, ParseEffect

LEMMA ReadInductive ==
    TypeInv /\ RowsInv /\ RunInv /\ ReadInv /\ [Next]_vars => ReadInv'
<1> SUFFICES ASSUME TypeInv, RowsInv, RunInv, ReadInv, [Next]_vars, InRange(points')
             PROVE  ReadInv'
  BY DEF ReadInv
<1>1. points' = points
  BY DEF Next, GroupPoint, SortPoints, NextToSort, StartSplit, ReadBitBatch,
     ReadWordBatch, ReadSplit, ReadIndividual, ParseValue, GroupParsed, vars
<1>2. InRange(points)
  BY <1>1
<1>3. CASE GroupPoint \/ SortPoints \/ NextToSort \/ GroupParsed
  BY <1>3, ReadVacuous DEF GroupPoint, SortPoints, NextToSort, GroupParsed, NextGroup
<1>4. CASE StartSplit \/ ReadBitBatch \/ ReadWordBatch
  BY <1>2, <1>4, StartSplitReads, BitBatchReads, WordBatchReads
<1>5. CASE ReadSplit \/ ReadIndividual \/ ParseValue
  BY <1>2, <1>5, SplitReads, IndividualReads, ParseValueReads
<1>6. CASE UNCHANGED vars
  BY <1>6 DEF vars, ReadInv, ReadTo, GroupEnd, Group
<1> QED  BY <1>3, <1>4, <1>5, <1>6 DEF Next

LEMMA ReadInvariant == Spec => []ReadInv
<1>1. Init => ReadInv
  BY DEF Init, ReadInv
<1> QED
  BY <1>1, TypeInvariant, RowsInvariant, RunInvariant, ReadInductive, PTL DEF Spec

-----------------------------------------------------------------------------
(* The slice that collectBatchGroup cuts for a point is made of the        *)
(* point's own registers.                                                  *)
LEMMA ContentSlice ==
    ASSUME NEW t, NEW a \in Nat, NEW len \in Nat, NEW p, p.Length \in Nat,
           j \in Nat, j + p.Length <= len,
           registers = Content(t, a, len), Len(registers) = len,
           p.Address = a + j
    PROVE  Slice(p) = Content(t, p.Address, p.Length)
<1>1. ASSUME NEW k \in 1..p.Length
      PROVE  /\ j + k <= Len(registers)
             /\ registers[j + k] = <<t, Plus(a + j, k - 1)>>
  <2>1. j + k \in 1..len /\ a + (j + k - 1) = a + j + (k - 1)
    OBVIOUS
  <2>2. Content(t, a, len)[j + k] = <<t, Plus(a, j + k - 1)>>
    BY <2>1 DEF Content
  <2> QED  BY <2>1, <2>2 DEF Plus
<1> QED  BY <1>1 DEF Content, Slice

LEMMA OwnSlice ==
    ASSUME TypeInv, RowsInv, RunInv, ReadInv, InRange(points), ParseValue
    PROVE  LET p == Group.Points[i] IN
           /\ Slice(p) = Content(p.RegisterType, p.Address, p.Length)
           /\ j + p.Length <= Len(registers)
<1> DEFINE p == Group.Points[i]
           b == Group.StartAddress
           t == Group.RegisterType
           len == GroupEnd - b
<1>1. /\ i \in DOMAIN Group.Points /\ g \in DOMAIN groups /\ phase = "parse"
  BY ParseEffect
<1>2. /\ i \in 1..Len(Group.Points) /\ Len(Group.Points) \in Nat
      /\ b \in Nat /\ t \in RegisterTypes
  BY <1>1, GroupFields
<1>3. /\ GroupEnd \in Nat /\ b <= GroupEnd /\ p.Address \in Nat /\ p.Length \in Nat
      /\ b <= p.Address /\ p.Address + p.Length <= GroupEnd
  BY <1>1, <1>2, GroupRun
<1>4. registers = Content(t, b, len)
  BY <1>1, <1>2 DEF ReadInv, ReadTo
<1>5. j = p.Address - b
  BY <1>1, <1>2 DEF ReadInv
<1>6. p.RegisterType = t
  BY <1>1 DEF RowsInv, Group
<1>7. /\ len \in Nat /\ j \in Nat /\ b + j = p.Address /\ j + p.Length <= len
  <2>1. b \in Nat
    BY <1>2
  <2> HIDE DEF p, b, t
  <2> QED  BY ONLY <2>1, <1>3, <1>5
<1> HIDE DEF p, b, t, len
<1>8. Len(registers) = len
  BY <1>2, <1>4, <1>7, ContentType
<1>9. Slice(p) = Content(t, p.Address, p.Length)
  BY <1>2, <1>3, <1>4, <1>7, <1>8, ContentSlice
<1> QED  BY <1>6, <1>7, <1>8, <1>9 DEF p

(* The point at the place i of group g is a row of the list.               *)
LEMMA PlaceIsListed ==
    ASSUME TypeInv, RowsInv, g \in DOMAIN groups, NEW l \in DOMAIN Group.Points
    PROVE  /\ Group.Points[l] \in Elements(points)
           /\ Group.Points[l].RegisterType = Group.RegisterType
           /\ \A p \in Elements(points) :
                 p.Name = Group.Points[l].Name => p = Group.Points[l]
<1>1. /\ Row(g, l) \in 1..n /\ Group.Points[l] = points[Row(g, l)]
      /\ Group.RegisterType = points[Row(g, l)].RegisterType
  BY DEF RowsInv, Group
<1>2. Row(g, l) \in DOMAIN points
  BY <1>1 DEF TypeInv, TypeOK
<1>3. \A r \in DOMAIN points : points[r].Name = Row(g, l) => r = Row(g, l)
  BY NamesAreRows
<1> QED  BY <1>1, <1>2, <1>3 DEF Elements, Row, Group

(* A list that is in range at a step was so before.                        *)
LEMMA ListKept == [Next]_vars => points' = points
BY DEF Next, GroupPoint, SortPoints, NextToSort, StartSplit, ReadBitBatch,
   ReadWordBatch, ReadSplit, ReadIndividual, ParseValue, GroupParsed, vars

LEMMA GoodKept ==
    ASSUME GoodMeansOwnRegisters, points' = points,
           \A a \in DOMAIN values' :
              \/ a \in DOMAIN values /\ values'[a] = values[a]
              \/ values'[a].Quality = "BAD"
    PROVE  GoodMeansOwnRegisters'
BY DEF GoodMeansOwnRegisters, Elements

LEMMA GoodParsed ==
    ASSUME TypeInv, RowsInv, RunInv, ReadInv, GoodMeansOwnRegisters,
           InRange(points), ParseValue
    PROVE  GoodMeansOwnRegisters'
<1> DEFINE p == Group.Points[i]
           own == Value(p, "GOOD", Content(p.RegisterType, p.Address, p.Length))
<1>1. /\ points' = points /\ values \in Seq(ValueRecords)
      /\ i \in DOMAIN Group.Points /\ g \in DOMAIN groups
  BY ParseEffect, ReadingType DEF Kept
<1>2. CASE values' = values
  BY <1>1, <1>2, GoodKept
<1>3. CASE values' = Append(values, Value(p, "BAD", <<>>))
  <2>1. Value(p, "BAD", <<>>).Quality = "BAD"
    BY DEF Value
  <2> HIDE DEF p
  <2>2. \A a \in DOMAIN values' : \/ a \in DOMAIN values /\ values'[a] = values[a]
                                  \/ values'[a] = Value(p, "BAD", <<>>)
    BY <1>1, <1>3
  <2> QED  BY <1>1, <2>1, <2>2, GoodKept
<1>4. CASE values' = Append(values, Value(p, "GOOD", Slice(p)))
  <2>1. values' = Append(values, own)
    BY <1>4, OwnSlice
  <2>2. /\ own.Name = p.Name
        /\ own.regs = Content(p.RegisterType, p.Address, p.Length)
    BY DEF Value
  <2>3. \A q \in Elements(points) : q.Name = p.Name => q = p
    BY <1>1, PlaceIsListed
  <2> HIDE DEF p, own
  <2>4. \A a \in DOMAIN values' : \/ a \in DOMAIN values /\ values'[a] = values[a]
                                  \/ values'[a] = own
    BY <1>1, <2>1
  <2> QED  BY <1>1, <2>2, <2>3, <2>4 DEF GoodMeansOwnRegisters, Elements
<1> QED  BY <1>2, <1>3, <1>4, ParseEffect

LEMMA GoodInductive ==
    TypeInv /\ RowsInv /\ RunInv /\ ReadInv /\ GoodMeansOwnRegisters /\ [Next]_vars
        => GoodMeansOwnRegisters'
<1> SUFFICES ASSUME TypeInv, RowsInv, RunInv, ReadInv, GoodMeansOwnRegisters,
                    [Next]_vars, InRange(points')
             PROVE  GoodMeansOwnRegisters'
  BY DEF GoodMeansOwnRegisters
<1>1. points' = points /\ InRange(points)
  BY ListKept
<1>2. CASE values' = values
  BY <1>1, <1>2, GoodKept
<1>3. CASE GroupBad /\ phase \in GroupLoops
  BY <1>1, <1>3, ReadingType, BadValues, GoodKept
<1>4. CASE ParseValue
  BY <1>1, <1>4, GoodParsed
<1> QED
  BY <1>2, <1>3, <1>4
  DEF Next, GroupPoint, SortPoints, NextToSort, StartSplit, ReadBitBatch,
      ReadWordBatch, ReadSplit, ReadIndividual, GroupParsed, vars, GroupLoops

(* A value of quality GOOD is made of the registers of its own point, all  *)
(* of them and in order, however the points were grouped, sorted and read: *)
(* for every list that stays below the last address.                       *)
THEOREM GoodValuesAreTheirOwn == Spec => []GoodMeansOwnRegisters
<1>1. Init => GoodMeansOwnRegisters
  BY DEF Init, GoodMeansOwnRegisters, Elements
<1> QED
  BY <1>1, TypeInvariant, RowsInvariant, RunInvariant, ReadInvariant,
     GoodInductive, PTL DEF Spec

(* A valid list that stays below the last address never makes              *)
(* collectBatchGroup slice past the registers it read: a slice ends within *)
(* them, and no point is empty.                                            *)
THEOREM ValidListsNeverPanic == Spec => []NoPanic
<1>1. Init => NoPanic
  BY DEF Init, NoPanic
<1>2. TypeInv /\ RowsInv /\ RunInv /\ ReadInv /\ NoPanic /\ [Next]_vars => NoPanic'
  <2> SUFFICES ASSUME TypeInv, RowsInv, RunInv, ReadInv, NoPanic, [Next]_vars,
                      ValidatePoints(points'), InRange(points')
               PROVE  phase' # "panic"
    BY DEF NoPanic
  <2>1. ValidatePoints(points) /\ InRange(points)
    BY ListKept
  <2>2. CASE ParseValue
    <3> DEFINE p == Group.Points[i]
    <3>1. p \in Elements(points) /\ p.Length \in Nat
      BY <2>2, ParseEffect, PlaceIsListed, PointFields
    <3>2. p.Length > 0 /\ j + p.Length <= Len(registers)
      BY <2>1, <2>2, <3>1, OwnSlice DEF ValidatePoints
    <3>3. Len(registers) \in Nat /\ j \in Nat
      BY ReadingType
    <3>4. ~(j + p.Length > Len(registers)) /\ ~CannotParse(p)
      BY <3>1, <3>2, <3>3 DEF CannotParse
    <3>5. phase = "parse"
      BY <2>2, ParseEffect
    <3> QED  BY <2>2, <3>4, <3>5, ParseEffect
  <2>3. CASE ~ParseValue
    BY <2>1, <2>3
    DEF Next, GroupPoint, SortPoints, NextToSort, StartSplit, ReadBitBatch,
        ReadWordBatch, ReadSplit, ReadIndividual, GroupParsed, vars, NoPanic,
        Parse, GroupBad, NextGroup
  <2> QED  BY <2>2, <2>3
<1> QED
  BY <1>1, <1>2, TypeInvariant, RowsInvariant, RunInvariant, ReadInvariant, PTL
  DEF Spec

-----------------------------------------------------------------------------
(* A request within the run of its group asks for configured registers.    *)
Configured(r) ==
    /\ r.len \in 1..MaxRead[r.type]
    /\ \A a \in r.addr..(r.addr + r.len - 1) :
          \E p \in Elements(points) :
              /\ p.RegisterType = r.type
              /\ a \in p.Address..(p.Address + p.Length - 1)

LEMMA RequestInGroup ==
    ASSUME TypeInv, RowsInv, RunInv, InRange(points), g \in DOMAIN groups,
           NEW r \in Requests, r.type = Group.RegisterType,
           r.len >= 1, r.len <= MaxRead[r.type],
           r.addr >= Group.StartAddress, r.addr + r.len <= GroupEnd
    PROVE  Configured(r)
<1>1. /\ r.len \in Nat /\ r.addr \in Nat /\ r.type \in RegisterTypes
  BY UInt16IsNat DEF Requests
<1>2. /\ MaxRead[r.type] \in Nat /\ Group.StartAddress \in Nat
      /\ GroupEnd \in Nat
  BY <1>1, LimitType, GroupFields, GroupRun
<1>3. ASSUME NEW a \in r.addr..(r.addr + r.len - 1)
      PROVE  \E p \in Elements(points) :
                /\ p.RegisterType = r.type
                /\ a \in p.Address..(p.Address + p.Length - 1)
  <2>1. a \in Group.StartAddress..(Group.StartAddress + Group.TotalLength - 1)
    <3>1. a \in Group.StartAddress..(GroupEnd - 1)
      BY <1>1, <1>2
    <3>2. GroupEnd = Group.StartAddress + Group.TotalLength
      BY DEF GroupEnd
    <3>3. Group.StartAddress \in Nat /\ Group.TotalLength \in Nat
      BY GroupFields
    <3> QED  BY ONLY <3>1, <3>2, <3>3
  <2>2. IsRun(Group)
    BY DEF RunInv, Group
  <2>3. \A x \in Group.StartAddress..(Group.StartAddress + Group.TotalLength - 1) :
           \E l \in DOMAIN Group.Points :
              x \in Group.Points[l].Address..(End(Group.Points[l]) - 1)
    BY ONLY <2>2 DEF IsRun
  <2>4. PICK l \in DOMAIN Group.Points :
           a \in Group.Points[l].Address..(End(Group.Points[l]) - 1)
    BY <2>1, <2>3
  <2> DEFINE p == Group.Points[l]
  <2>5. p \in Elements(points) /\ p.RegisterType = r.type
    BY PlaceIsListed
  <2>6. End(p) = p.Address + p.Length /\ p.Address \in Nat /\ p.Length \in Nat
    BY GroupFields, PointFields DEF End
  <2> HIDE DEF p
  <2>7. a \in p.Address..(p.Address + p.Length - 1)
    BY <2>4, <2>6 DEF p
  <2> QED  BY <2>5, <2>7
<1> QED  BY <1>1, <1>2, <1>3 DEF Configured

(* The three kinds of request.                                             *)
LEMMA WholeConfigured ==
    ASSUME TypeInv, RowsInv, RunInv, InRange(points), ValidatePoints(points),
           g \in DOMAIN groups, Fits
    PROVE  Configured(Whole)
<1>1. /\ Whole \in Requests /\ Whole.type = Group.RegisterType
      /\ Whole.addr = Group.StartAddress /\ Whole.len = Group.TotalLength
  BY RequestType DEF Whole
<1>2. Group.StartAddress \in Nat /\ Group.TotalLength \in Nat
  BY GroupFields
<1>3. Group.TotalLength >= 1
  <2> DEFINE p == Group.Points[1]
  <2>1. 1 \in DOMAIN Group.Points
    BY GroupFields
  <2>2. p.Length > 0
    BY <2>1, PlaceIsListed DEF ValidatePoints
  <2>3. /\ p.Address = Group.StartAddress /\ p.Length \in Nat
        /\ p.Address + p.Length <= GroupEnd
    BY <2>1, GroupRun, GroupFields
  <2> HIDE DEF p
  <2> QED  BY <1>2, <2>2, <2>3 DEF GroupEnd
<1>4. Whole.len <= MaxRead[Whole.type] /\ Whole.addr + Whole.len <= GroupEnd
  BY <1>1, <1>2 DEF Fits, GroupEnd
<1> HIDE DEF Whole
<1> QED  BY <1>1, <1>2, <1>3, <1>4, RequestInGroup

LEMMA SubBatchConfigured ==
    ASSUME TypeInv, RowsInv, RunInv, ReadInv, InRange(points),
           phase = "split", remaining > 0
    PROVE  Configured(SubBatch)
<1>1. /\ g \in DOMAIN groups /\ start \in Nat /\ remaining \in Nat
      /\ Group.StartAddress \in Nat
  BY ReadingType, UInt16IsNat, GroupFields DEF GroupLoops
<1>2. /\ SubBatch \in Requests /\ SubBatch.type = Group.RegisterType
      /\ SubBatch.addr = start /\ SubBatch.len = BatchLength
      /\ BatchLength \in Nat /\ BatchLength > 0 /\ BatchLength <= remaining
      /\ BatchLength <= MaxRead[Group.RegisterType]
  BY <1>1, RequestType DEF SubBatch
<1>3. start >= Group.StartAddress /\ start + remaining = GroupEnd
  BY DEF ReadInv, ReadTo
<1>4. SubBatch.len >= 1 /\ SubBatch.addr + SubBatch.len <= GroupEnd
  BY <1>1, <1>2, <1>3
<1> QED  BY <1>1, <1>2, <1>3, <1>4, RequestInGroup

LEMMA SingleConfigured ==
    ASSUME TypeInv, RowsInv, RunInv, ReadInv, InRange(points),
           phase = "individual", i <= Len(Group.Points),
           j < Group.Points[i].Length
    PROVE  Configured(Single)
<1> DEFINE p == Group.Points[i]
<1>1. /\ g \in DOMAIN groups /\ i \in 1..Len(Group.Points) /\ j \in Nat
      /\ DOMAIN Group.Points = 1..Len(Group.Points)
      /\ Group.RegisterType \in RegisterTypes
  BY ReadingType, GroupFields DEF GroupLoops
<1>2. /\ p.Address \in Nat /\ p.Length \in Nat /\ Group.StartAddress <= p.Address
      /\ p.Address + p.Length <= GroupEnd
      /\ GroupEnd \in Nat /\ GroupEnd < AddressSpace
      /\ Group.StartAddress \in Nat
  BY <1>1, GroupRun, GroupFields
<1>3. Plus(p.Address, j) = p.Address + j
  <2>1. p.Address + j < AddressSpace
    BY <1>1, <1>2, BatchReadAssumption
  <2> QED  BY <1>1, <1>2, <2>1, PlusSmall
<1>4. /\ Single \in Requests /\ Single.type = Group.RegisterType
      /\ Single.addr = p.Address + j /\ Single.len = 1
  BY <1>1, <1>3, RequestType DEF Single
<1>5. MaxRead[Group.RegisterType] \in Nat /\ MaxRead[Group.RegisterType] > 0
  BY <1>1, LimitType
<1>6. j < p.Length
  OBVIOUS
<1> HIDE DEF p
<1>7. /\ Single.addr >= Group.StartAddress /\ Single.addr + Single.len <= GroupEnd
      /\ Single.len >= 1 /\ Single.len <= MaxRead[Single.type]
  BY <1>1, <1>2, <1>4, <1>5, <1>6
<1> QED  BY <1>1, <1>4, <1>7, RequestInGroup

(* A poll of a valid list that stays below the last address asks only for  *)
(* configured registers and for no more than one request may return.       *)
THEOREM RequestsStayConfigured == Spec => []RequestsAreConfigured
<1>1. Init => RequestsAreConfigured
  BY DEF Init, RequestsAreConfigured
<1>2. TypeInv /\ RowsInv /\ RunInv /\ ReadInv /\ RequestsAreConfigured
          /\ [Next]_vars => RequestsAreConfigured'
  <2> SUFFICES ASSUME TypeInv, RowsInv, RunInv, ReadInv, RequestsAreConfigured,
                      [Next]_vars, ValidatePoints(points'), InRange(points')
               PROVE  request' # NoRequest => Configured(request')
    BY ListKept DEF RequestsAreConfigured, Configured
  <2>1. ValidatePoints(points) /\ InRange(points)
    BY ListKept
  <2>2. CASE request' = request
    BY <2>1, <2>2 DEF RequestsAreConfigured, Configured
  <2>3. ASSUME NEW r, Answered(r) \/ Refused(r), Configured(r)
        PROVE  Configured(request')
    BY <2>3 DEF Answered, Refused
  <2>4. CASE ReadBitBatch \/ ReadWordBatch
    <3>1. g \in DOMAIN groups /\ Fits
      BY <2>4, ReadingType DEF ReadBitBatch, ReadWordBatch, GroupLoops
    <3>2. Answered(Whole) \/ Refused(Whole)
      BY <2>4 DEF ReadBitBatch, ReadWordBatch
    <3> QED  BY <2>1, <2>3, <3>1, <3>2, WholeConfigured
  <2>5. CASE ReadSplit
    BY <2>1, <2>2, <2>3, <2>5, SubBatchConfigured DEF ReadSplit
  <2>6. CASE ReadIndividual
    BY <2>1, <2>2, <2>3, <2>6, SingleConfigured DEF ReadIndividual
  <2> QED
    BY <2>2, <2>4, <2>5, <2>6
    DEF Next, GroupPoint, SortPoints, NextToSort, StartSplit, ParseValue,
        GroupParsed, vars
<1> QED
  BY <1>1, <1>2, TypeInvariant, RowsInvariant, RunInvariant, ReadInvariant, PTL
  DEF Spec
=============================================================================
