---------------------------- MODULE RegistryProofs ----------------------------
(***************************************************************************)
(* Safety of Registry, for any devices, names, points files and handlers.  *)
(* Neither invariant is inductive: what is registered fits together only   *)
(* because the collector of a device is there before the first of its      *)
(* points, and a handler's target only because what it looked up did.      *)
(***************************************************************************)
EXTENDS Registry, TLAPS

-----------------------------------------------------------------------------
(* The row is the first one except in the loop over the points.            *)
RowInv == main # "point" => row = 1

(* A collector stands under its own device's name.                         *)
CollectorInv ==
    \A n \in Names : collectors[n] # None => DeviceName[collectors[n]] = n

(* While a device's points are loaded and registered its collector is.     *)
LoadInv == main \in {"load", "point"} => collectors[DeviceName[device]] # None

IInv ==
    /\ TypeOK /\ RowInv /\ CollectorInv /\ LoadInv
    /\ EntriesFitTogether /\ AsksThePointsDevice

-----------------------------------------------------------------------------
(* What the assumptions say of devices, lists and points.                  *)
LEMMA Constants ==
    /\ NumDevices \in Nat \ {0}
    /\ 1 \in Devices /\ Devices \subseteq Nat
    /\ DeviceName \in [Devices -> Names]
    /\ \A d \in Devices : /\ Len(List[d]) \in Nat /\ Len(List[d]) >= 1
                          /\ DOMAIN List[d] = 1..Len(List[d])
                          /\ \A k \in DOMAIN List[d] : List[d][k] \in PointNames
    /\ None \notin Names /\ None \notin Devices /\ None \notin Points
<1>1. \A d \in Devices : /\ Len(List[d]) \in Nat /\ Len(List[d]) >= 1
                         /\ DOMAIN List[d] = 1..Len(List[d])
                         /\ \A k \in DOMAIN List[d] : List[d][k] \in PointNames
  <2> TAKE d \in Devices
  <2>1. List[d] \in Seq(PointNames) /\ List[d] # <<>>
    BY RegistryAssumption
  <2> QED  BY <2>1
<1>2. None \notin Points
  <2>1. ASSUME NEW p \in Points PROVE p \in Devices \X Nat
    <3>1. PICK d \in Devices : p \in {d} \X DOMAIN List[d]
      BY DEF Points
    <3> QED  BY <3>1, <1>1
  <2> QED  BY <2>1, RegistryAssumption
<1> QED  BY <1>1, <1>2, RegistryAssumption DEF Devices

(* The point of a row of a file.                                           *)
LEMMA PointOfRow ==
    ASSUME NEW d \in Devices, NEW k \in DOMAIN List[d]
    PROVE  /\ <<d, k>> \in Points
           /\ NameOf(<<d, k>>) = List[d][k]
           /\ <<d, k>>[1] = d
BY DEF Points, NameOf

LEMMA PointDevice ==
    ASSUME NEW p \in Points
    PROVE  p[1] \in Devices
BY DEF Points

LEMMA InitIInv == Init => IInv
<1> SUFFICES ASSUME Init PROVE IInv
  OBVIOUS
<1>1. TypeOK
  <2>1. device \in 1..NumDevices + 1 /\ device \in Devices
    BY Constants DEF Init, Devices
  <2>2. \A h \in Handlers : pc[h] = "idle" /\ h \notin readers
    BY DEF Init
  <2>3. /\ collectors \in [Names -> Devices \cup {None}]
        /\ points \in [PointNames -> Points \cup {None}]
        /\ deviceMap \in [PointNames -> Names \cup {None}]
        /\ pending \in BOOLEAN
    BY DEF Init
  <2>4. /\ pc \in [Handlers -> {"idle", "lookup", "call"}]
        /\ call \in [Handlers -> Requests \cup {None}]
        /\ target \in [Handlers -> Targets \cup {None}]
        /\ answer \in [Handlers -> {0, 200, 404, 500}]
    BY DEF Init
  <2> QED  BY <2>1, <2>2, <2>3, <2>4 DEF Init, TypeOK
<1>2. RowInv /\ CollectorInv /\ LoadInv
  BY DEF Init, RowInv, CollectorInv, LoadInv
<1>3. EntriesFitTogether
  BY DEF Init, EntriesFitTogether
<1>4. AsksThePointsDevice
  BY DEF Init, AsksThePointsDevice
<1> QED
  BY <1>1, <1>2, <1>3, <1>4 DEF IInv

-----------------------------------------------------------------------------
(* The steps of Init that do not register keep the registry and the        *)
(* handlers.                                                               *)
LEMMA LoopStep ==
    ASSUME IInv, NewCollector \/ Lock \/ LoadPoints \/ InitReturns
    PROVE  IInv'
<1> USE DEF IInv
<1>1. TypeOK'
  <2>1. CASE NewCollector
    BY <2>1, Constants DEF NewCollector, NextDevice, TypeOK, registry,
                           handlerVars, Devices
  <2>2. CASE Lock
    BY <2>2 DEF Lock, TypeOK, registry, initVars, handlerVars
  <2>3. CASE LoadPoints
    <3>1. device \in Devices /\ row = 1
      BY <2>3 DEF LoadPoints, TypeOK, RowInv
    <3>2. device + 1 \in 1..NumDevices + 1 /\ 1 \in DOMAIN List[device]
      BY <3>1, Constants DEF Devices
    <3>3. CASE main' = "point" /\ accepted' = accepted \cup {device}
               /\ UNCHANGED <<device, row>>
      <4> SUFFICES main' = "point" => row' \in DOMAIN List[device']
        BY <2>3, <3>1, <3>3 DEF LoadPoints, TypeOK, registry, handlerVars
      <4> QED  BY <3>1, <3>2, <3>3
    <3>4. CASE NextDevice /\ UNCHANGED accepted
      BY <2>3, <3>2, <3>4 DEF LoadPoints, NextDevice, TypeOK, registry,
                              handlerVars
    <3> QED  BY <2>3, <3>3, <3>4 DEF LoadPoints
  <2>4. CASE InitReturns
    BY <2>4 DEF InitReturns, TypeOK, registry, handlerVars
  <2> QED  BY <2>1, <2>2, <2>3, <2>4
<1>2. RowInv'
  BY DEF NewCollector, Lock, LoadPoints, InitReturns, NextDevice, RowInv,
         registry, initVars
<1>3. UNCHANGED registry /\ UNCHANGED handlerVars
  BY DEF NewCollector, Lock, LoadPoints, InitReturns
<1>4. CollectorInv' /\ EntriesFitTogether' /\ AsksThePointsDevice'
  BY <1>3 DEF registry, handlerVars, CollectorInv, EntriesFitTogether,
              AsksThePointsDevice
<1>5. LoadInv'
  BY <1>3 DEF NewCollector, Lock, LoadPoints, InitReturns, NextDevice, LoadInv,
              registry, initVars
<1> QED  BY <1>1, <1>2, <1>4, <1>5

(* A collector is entered under its device's name.                         *)
LEMMA CollectorStep ==
    ASSUME IInv, RegisterCollector
    PROVE  IInv'
<1> USE DEF IInv, RegisterCollector
<1>1. device \in Devices /\ DeviceName[device] \in Names
  BY Constants DEF TypeOK
<1>2. collectors' = [collectors EXCEPT ![DeviceName[device]] = device]
  OBVIOUS
<1>3. \A n \in Names : collectors'[n] = IF n = DeviceName[device] THEN device
                                                              ELSE collectors[n]
  BY <1>2 DEF TypeOK
<1>4. TypeOK'
  <2>1. collectors' \in [Names -> Devices \cup {None}]
    BY <1>1, <1>2 DEF TypeOK
  <2>2. UNCHANGED <<points, deviceMap, readers, device, row, accepted,
                    handlerVars>>
        /\ main' = "load" /\ pending' = FALSE
    BY DEF Unlock
  <2>3. \A h \in Handlers :
           /\ pc'[h] # "idle" => call'[h] # None
           /\ pc'[h] = "call" => target'[h] # None
           /\ h \in readers' <=> pc'[h] = "call" /\ call'[h].kind = "read"
    BY <2>2 DEF TypeOK, handlerVars
  <2>4. /\ pc' \in [Handlers -> {"idle", "lookup", "call"}]
        /\ call' \in [Handlers -> Requests \cup {None}]
        /\ target' \in [Handlers -> Targets \cup {None}]
        /\ answer' \in [Handlers -> {0, 200, 404, 500}]
    BY <2>2 DEF TypeOK, handlerVars
  <2>5. /\ points' \in [PointNames -> Points \cup {None}]
        /\ deviceMap' \in [PointNames -> Names \cup {None}]
        /\ pending' \in BOOLEAN /\ readers' \subseteq Handlers
        /\ device' \in 1..NumDevices + 1 /\ row' \in Nat \ {0}
        /\ device' \in Devices /\ accepted' \subseteq Devices
    <3>1. UNCHANGED <<points, deviceMap, readers, device, row, accepted>>
          /\ pending' = FALSE
      BY <2>2
    <3>2. TypeOK
      OBVIOUS
    <3> HIDE DEF IInv, RegisterCollector
    <3>3. pending' \in BOOLEAN
      BY <3>1
    <3>4. /\ points' \in [PointNames -> Points \cup {None}]
          /\ deviceMap' \in [PointNames -> Names \cup {None}]
          /\ readers' \subseteq Handlers /\ accepted' \subseteq Devices
      BY <3>1, <3>2 DEF TypeOK
    <3>5. device' \in 1..NumDevices + 1 /\ row' \in Nat \ {0} /\ device' \in Devices
      BY <1>1, <3>1, <3>2 DEF TypeOK
    <3> QED  BY <3>3, <3>4, <3>5
  <2> HIDE DEF IInv, RegisterCollector
  <2> QED  BY <2>1, <2>2, <2>3, <2>4, <2>5 DEF TypeOK
<1>5. RowInv'
  BY DEF RowInv
<1>6. CollectorInv'
  BY <1>1, <1>3 DEF CollectorInv
<1>7. LoadInv'
  BY <1>1, <1>3, Constants DEF LoadInv
<1>8. EntriesFitTogether'
  <2> SUFFICES ASSUME NEW n \in PointNames, deviceMap[n] # None
               PROVE  /\ points[n] # None
                      /\ NameOf(points[n]) = n
                      /\ DeviceName[points[n][1]] = deviceMap[n]
                      /\ collectors'[deviceMap[n]] # None
                      /\ DeviceName[collectors'[deviceMap[n]]] = deviceMap[n]
    BY DEF EntriesFitTogether
  <2>1. deviceMap[n] \in Names
    BY DEF TypeOK
  <2> QED
    BY <1>1, <1>3, <2>1, Constants DEF EntriesFitTogether
<1>9. AsksThePointsDevice'
  BY DEF AsksThePointsDevice, handlerVars
<1> QED  BY <1>4, <1>5, <1>6, <1>7, <1>8, <1>9

(* A point is entered with the device whose loop it is.                    *)
LEMMA PointStep ==
    ASSUME IInv, RegisterPoint
    PROVE  IInv'
<1> USE DEF IInv, RegisterPoint
<1> DEFINE name == List[device][row]
<1>1. device \in Devices /\ row \in DOMAIN List[device] /\ name \in PointNames
      /\ DeviceName[device] \in Names
  BY Constants DEF TypeOK
<1>2. <<device, row>> \in Points /\ NameOf(<<device, row>>) = name
  BY <1>1, PointOfRow
<1>3. /\ points' = [points EXCEPT ![name] = <<device, row>>]
      /\ deviceMap' = [deviceMap EXCEPT ![name] = DeviceName[device]]
  BY DEF Enter
<1>4. TypeOK'
  <2>1. points' \in [PointNames -> Points \cup {None}]
        /\ deviceMap' \in [PointNames -> Names \cup {None}]
    BY <1>1, <1>2, <1>3 DEF TypeOK
  <2>2. /\ main' \in {"collector", "point"}
        /\ device' \in 1..NumDevices + 1
        /\ row' \in Nat \ {0}
        /\ main' = "point" => device' \in Devices /\ row' \in DOMAIN List[device']
    BY <1>1, Constants DEF TypeOK, NextPoint, NextDevice, Devices
  <2> QED
    BY <2>1, <2>2 DEF TypeOK, Unlock, handlerVars
<1>5. RowInv'
  BY DEF RowInv, NextPoint, NextDevice
<1>6. CollectorInv'
  BY DEF CollectorInv
<1>7. LoadInv'
  BY DEF LoadInv, NextPoint, NextDevice
<1>8. EntriesFitTogether'
  <2> SUFFICES ASSUME NEW n \in PointNames, deviceMap'[n] # None
               PROVE  /\ points'[n] # None
                      /\ NameOf(points'[n]) = n
                      /\ DeviceName[points'[n][1]] = deviceMap'[n]
                      /\ collectors[deviceMap'[n]] # None
                      /\ DeviceName[collectors[deviceMap'[n]]] = deviceMap'[n]
    BY DEF EntriesFitTogether
  <2>1. CASE n = name
    <3>1. points'[n] = <<device, row>> /\ deviceMap'[n] = DeviceName[device]
      BY <1>3, <2>1 DEF TypeOK
    <3>2. collectors[DeviceName[device]] # None
      BY DEF LoadInv
    <3>3. DeviceName[collectors[DeviceName[device]]] = DeviceName[device]
      BY <1>1, <3>2 DEF CollectorInv
    <3> QED
      BY <1>2, <2>1, <3>1, <3>2, <3>3, Constants
  <2>2. CASE n # name
    <3>1. points'[n] = points[n] /\ deviceMap'[n] = deviceMap[n]
      BY <1>3, <2>2 DEF TypeOK
    <3> QED
      BY <3>1 DEF EntriesFitTogether
  <2> QED  BY <2>1, <2>2
<1>9. AsksThePointsDevice'
  BY DEF AsksThePointsDevice, handlerVars
<1> QED  BY <1>4, <1>5, <1>6, <1>7, <1>8, <1>9

-----------------------------------------------------------------------------
(* A handler changes nothing but its own request.                          *)
LEMMA HandlerKeeps ==
    ASSUME IInv, UNCHANGED registry, UNCHANGED initVars
    PROVE  RowInv' /\ CollectorInv' /\ LoadInv' /\ EntriesFitTogether'
BY DEF IInv, registry, initVars, RowInv, CollectorInv, LoadInv,
       EntriesFitTogether

LEMMA HandlerSteps ==
    ASSUME IInv, NEW h \in Handlers, Request(h) \/ HandlerStep(h)
    PROVE  IInv'
<1> USE DEF IInv
<1>1. CASE Request(h)
  <2> USE <1>1 DEF Request
  <2>1. TypeOK'
    BY NoneAssumption DEF TypeOK, registry, initVars
  <2>2. AsksThePointsDevice'
    BY DEF AsksThePointsDevice, TypeOK
  <2> QED  BY <2>1, <2>2, HandlerKeeps
<1>2. CASE Lookup(h)
  <2> DEFINE n == call[h].name
  <2> USE <1>2 DEF Lookup
  <2>1. call[h] \in Requests /\ n \in PointNames
    BY DEF TypeOK, Requests
  <2>2. CASE Registered(n)
    <3>1. collectors[deviceMap[n]] \in Devices /\ points[n] \in Points
          /\ deviceMap[n] \in Names
      BY <2>1, <2>2 DEF TypeOK, Registered
    <3>2. /\ target' = [target EXCEPT ![h] =
                            [collector |-> collectors[deviceMap[n]],
                             point     |-> points[n]]]
          /\ readers' = readers \cup (IF call[h].kind = "read" THEN {h} ELSE {})
          /\ pc' = [pc EXCEPT ![h] = "call"]
          /\ answer' = answer
      BY <2>2
    <3>3. [collector |-> collectors[deviceMap[n]], point |-> points[n]]
             \in Targets
      BY <3>1 DEF Targets
    <3>4. TypeOK'
      <4>1. target'[h] # None
        BY <3>2, <3>3, NoneAssumption DEF TypeOK
      <4> QED
        BY <3>2, <3>3, <4>1 DEF TypeOK, registry, initVars
    <3>5. AsksThePointsDevice'
      <4> SUFFICES ASSUME NEW k \in Handlers, pc'[k] = "call"
                   PROVE  /\ NameOf(target'[k].point) = call[k].name
                          /\ HasOwnName(target'[k].point[1])
                                => target'[k].collector = target'[k].point[1]
        BY DEF AsksThePointsDevice
      <4>1. CASE k = h
        <5>1. target'[h].point = points[n]
              /\ target'[h].collector = collectors[deviceMap[n]]
          BY <3>2 DEF TypeOK
        <5>2. NameOf(points[n]) = n
              /\ DeviceName[points[n][1]] = DeviceName[collectors[deviceMap[n]]]
          BY <2>1, <2>2 DEF EntriesFitTogether, Registered
        <5>3. HasOwnName(points[n][1])
                => points[n][1] = collectors[deviceMap[n]]
          BY <3>1, <5>2, PointDevice DEF HasOwnName
        <5> QED  BY <4>1, <5>1, <5>2, <5>3
      <4>2. CASE k # h
        BY <3>2, <4>2 DEF AsksThePointsDevice, TypeOK
      <4> QED  BY <4>1, <4>2
    <3> QED  BY <3>4, <3>5, HandlerKeeps
  <2>3. CASE ~Registered(n)
    <3>1. Answer(h, ErrorStatus(h)) /\ readers' = readers
      BY <2>3
    <3>2. TypeOK'
      BY <3>1 DEF TypeOK, Answer, ErrorStatus, registry, initVars
    <3>3. AsksThePointsDevice'
      BY <3>1 DEF AsksThePointsDevice, Answer, TypeOK
    <3> QED  BY <3>2, <3>3, HandlerKeeps
  <2> QED  BY <2>2, <2>3
<1>3. CASE CollectorReturns(h)
  <2> USE <1>3 DEF CollectorReturns
  <2>1. PICK status \in {200, ErrorStatus(h)} : Answer(h, status)
    OBVIOUS
  <2>2. TypeOK'
    BY <2>1 DEF TypeOK, Answer, ErrorStatus, RUnlock, registry, initVars
  <2>3. AsksThePointsDevice'
    BY <2>1 DEF AsksThePointsDevice, Answer, TypeOK
  <2> QED  BY <2>2, <2>3, HandlerKeeps
<1> QED  BY <1>1, <1>2, <1>3 DEF HandlerStep

LEMMA Inductive == IInv /\ [Next]_vars => IInv'
<1> SUFFICES ASSUME IInv, [Next]_vars PROVE IInv'
  OBVIOUS
<1>1. CASE InitStep
  BY <1>1, LoopStep, CollectorStep, PointStep DEF InitStep
<1>2. CASE \E h \in Handlers : Request(h) \/ HandlerStep(h)
  BY <1>2, HandlerSteps
<1>3. CASE UNCHANGED vars
  BY <1>3 DEF vars, registry, initVars, handlerVars, IInv, TypeOK, RowInv,
              CollectorInv, LoadInv, EntriesFitTogether, AsksThePointsDevice
<1> QED  BY <1>1, <1>2, <1>3 DEF Next

(* Types, and that exactly the handlers inside GetPointValue hold the read *)
(* lock.                                                                   *)
THEOREM TypeCorrect == Spec => []TypeOK
<1>1. IInv => TypeOK
  BY DEF IInv
<1> QED  BY <1>1, InitIInv, Inductive, PTL DEF Spec

(* What a name stands for fits together (RegisterCollector before          *)
(* RegisterPoint, two maps under one lock), for any devices and files.     *)
THEOREM RegistryFitsTogether == Spec => []EntriesFitTogether
<1>1. IInv => EntriesFitTogether
  BY DEF IInv
<1> QED  BY <1>1, InitIInv, Inductive, PTL DEF Spec

(* A handler asks the collector of the point's own device, although        *)
(* WritePoint calls it after the lock is released.                         *)
THEOREM HandlersAskThePointsDevice == Spec => []AsksThePointsDevice
<1>1. IInv => AsksThePointsDevice
  BY DEF IInv
<1> QED  BY <1>1, InitIInv, Inductive, PTL DEF Spec

-----------------------------------------------------------------------------
(* The points entered so far: those of the accepted lists before the       *)
(* device at hand, and of its own those before row.                        *)
Entered(p) ==
    /\ p[1] \in accepted
    /\ p[1] < device \/ (p[1] = device /\ main = "point" /\ p[2] < row)

(* A point that was entered stands for its name, or one of a later device  *)
(* that took the name.  Within a list this needs what ValidatePoints       *)
(* checks: no name is there twice.                                         *)
Stands(p) ==
    \/ points[NameOf(p)] = p
    \/ \E q \in Points : /\ Entered(q) /\ q[1] > p[1]
                         /\ NameOf(q) = NameOf(p)
                         /\ points[NameOf(p)] = q

ServedInv ==
    /\ \A d \in accepted : /\ d < device \/ (d = device /\ main = "point")
                           /\ MayBeValid(List[d])
    /\ main = "point" => device \in accepted
    /\ main \in {"done", "failed"} => device = NumDevices + 1
    /\ \A p \in Points : Entered(p) => Stands(p)

LEMMA PointFields ==
    ASSUME NEW p \in Points
    PROVE  /\ p = <<p[1], p[2]>> /\ p[1] \in Devices /\ p[1] \in Nat
           /\ p[2] \in DOMAIN List[p[1]] /\ p[2] \in Nat /\ p[2] >= 1
           /\ NameOf(p) = List[p[1]][p[2]] /\ NameOf(p) \in PointNames
<1>1. PICK d \in Devices : p \in {d} \X DOMAIN List[d]
  BY DEF Points
<1>2. p = <<p[1], p[2]>> /\ p[1] = d /\ p[2] \in DOMAIN List[d]
  BY <1>1
<1>3. DOMAIN List[d] = 1..Len(List[d]) /\ Len(List[d]) \in Nat
      /\ \A k \in DOMAIN List[d] : List[d][k] \in PointNames
  BY Constants
<1> QED  BY <1>2, <1>3, Constants DEF NameOf

(* Steps that enter no point.                                              *)
LEMMA NothingEntered ==
    ASSUME ServedInv, points' = points,
           \A p \in Points : Entered(p)' <=> Entered(p)
    PROVE  \A p \in Points : Entered(p)' => Stands(p)'
<1> TAKE p \in Points
<1> HAVE Entered(p)'
<1>1. Stands(p)
  BY DEF ServedInv
<1> QED  BY <1>1 DEF Stands

LEMMA LoopServes ==
    ASSUME IInv, ServedInv, NewCollector \/ Lock \/ RegisterCollector
                                \/ LoadPoints \/ InitReturns
    PROVE  ServedInv'
<1>1. /\ device \in Nat /\ device \in 1..NumDevices + 1 /\ NumDevices \in Nat
      /\ row \in Nat /\ accepted \subseteq Nat
  BY Constants DEF IInv, TypeOK
<1>2. points' = points
  BY DEF NewCollector, Lock, RegisterCollector, LoadPoints, InitReturns, registry
<1>3. CASE /\ UNCHANGED <<device, row, accepted>>
           /\ main' = main \/ (main # "point" /\ main' # "point")
           /\ main' \in {"done", "failed"} => device = NumDevices + 1
  <2>1. \A p \in Points : Entered(p)' <=> Entered(p)
    BY <1>3 DEF Entered
  <2>2. \A p \in Points : Entered(p)' => Stands(p)'
    BY <1>2, <2>1, NothingEntered
  <2> QED  BY <1>3, <2>2 DEF ServedInv
<1>4. CASE NextDevice /\ accepted' = accepted /\ main \in {"collector", "load"}
  <2>1. \A d \in accepted : d < device /\ d < device + 1 /\ d # device
    BY <1>1, <1>4 DEF ServedInv
  <2>2. \A p \in Points : Entered(p)' <=> Entered(p)
    BY <1>1, <1>4, <2>1 DEF Entered, NextDevice
  <2>3. \A p \in Points : Entered(p)' => Stands(p)'
    BY <1>2, <2>2, NothingEntered
  <2> QED  BY <1>4, <2>1, <2>3 DEF ServedInv, NextDevice
<1>5. CASE /\ main = "load" /\ main' = "point" /\ MayBeValid(List[device])
           /\ accepted' = accepted \cup {device}
           /\ UNCHANGED <<device, row>>
  <2>1. row = 1
    BY <1>5 DEF IInv, RowInv
  <2>2. ASSUME NEW p \in Points PROVE Entered(p)' <=> Entered(p)
    <3>1. p[1] \in Nat /\ p[2] \in Nat /\ p[2] >= 1
      BY PointFields
    <3> QED  BY <1>1, <1>5, <2>1, <3>1 DEF Entered
  <2>3. \A p \in Points : Entered(p)' => Stands(p)'
    BY <1>2, <2>2, NothingEntered
  <2> QED  BY <1>5, <2>3 DEF ServedInv
<1>6. CASE NewCollector
  BY <1>3, <1>4, <1>6 DEF NewCollector
<1>7. CASE Lock \/ RegisterCollector
  BY <1>3, <1>7 DEF Lock, RegisterCollector, initVars, ServedInv
<1>8. CASE LoadPoints
  BY <1>4, <1>5, <1>8 DEF LoadPoints
<1>9. CASE InitReturns
  BY <1>3, <1>9 DEF InitReturns
<1> QED  BY <1>6, <1>7, <1>8, <1>9

(* The point at row is entered: it takes its name from points of earlier   *)
(* devices only.                                                           *)
LEMMA PointServes ==
    ASSUME IInv, ServedInv, RegisterPoint
    PROVE  ServedInv'
<1> DEFINE name == List[device][row]
<1>1. PICK r : r = <<device, row>>
  OBVIOUS
<1>2. /\ main = "point" /\ device \in Devices /\ device \in Nat
      /\ row \in DOMAIN List[device] /\ row \in Nat
      /\ DOMAIN List[device] = 1..Len(List[device]) /\ Len(List[device]) \in Nat
  BY Constants DEF RegisterPoint, IInv, TypeOK
<1>3. r \in Points /\ NameOf(r) = name /\ r[1] = device /\ r[2] = row
  BY <1>1, <1>2, PointOfRow
<1>4. /\ device \in accepted /\ MayBeValid(List[device])
      /\ \A d \in accepted : d <= device /\ d \in Nat
  BY <1>2, Constants DEF ServedInv, IInv, TypeOK
<1>5. /\ points' = [points EXCEPT ![name] = r] /\ accepted' = accepted
      /\ points \in [PointNames -> Points \cup {None}]
  BY <1>1 DEF RegisterPoint, Enter, IInv, TypeOK
<1>6. ASSUME NEW p \in Points
      PROVE  Entered(p)' <=> Entered(p) \/ p = r
  <2>1. /\ p = <<p[1], p[2]>> /\ p[1] \in Nat /\ p[2] \in Nat
        /\ p[1] = device => p[2] \in 1..Len(List[device])
    BY <1>2, PointFields
  <2>2. CASE row < Len(List[device])
    <3>1. row' = row + 1 /\ main' = main /\ device' = device
      BY <2>2 DEF RegisterPoint, NextPoint
    <3> QED  BY <1>1, <1>2, <1>3, <1>4, <1>5, <2>1, <3>1 DEF Entered
  <2>3. CASE ~(row < Len(List[device]))
    <3>1. row = Len(List[device])
      BY <1>2, <2>3
    <3>2. main' = "collector" /\ device' = device + 1
      BY <2>3 DEF RegisterPoint, NextPoint, NextDevice
    <3>3. p[1] = device => p[2] < row \/ p = r
      BY <1>1, <1>2, <2>1, <3>1
    <3>4. p[1] \in accepted => p[1] <= device
      BY <1>4
    <3> QED  BY <1>1, <1>2, <1>3, <1>4, <1>5, <2>1, <3>2, <3>3, <3>4 DEF Entered
  <2> QED  BY <2>2, <2>3
<1>7. ASSUME NEW p \in Points, Entered(p)' PROVE Stands(p)'
  <2>1. CASE p = r
    BY <1>3, <1>5, <2>1, PointFields DEF Stands
  <2>2. CASE p # r /\ NameOf(p) # name
    <3>1. Entered(p) /\ NameOf(p) \in PointNames
      BY <1>6, <1>7, <2>2, PointFields
    <3>2. points'[NameOf(p)] = points[NameOf(p)]
      BY <1>5, <2>2, <3>1
    <3>3. Stands(p)
      BY <3>1 DEF ServedInv
    <3> QED  BY <1>6, <3>2, <3>3 DEF Stands
  <2>3. CASE p # r /\ NameOf(p) = name
    <3>1. Entered(p) /\ NameOf(p) \in PointNames
      BY <1>6, <1>7, <2>3, PointFields
    <3>2. points'[NameOf(p)] = r
      BY <1>5, <2>3, <3>1
    <3>3. p[1] < device
      <4>1. CASE p[1] = device
        <5>1. p[2] < row /\ p[2] \in DOMAIN List[device] /\ p[2] \in Nat
              /\ List[device][p[2]] = name
          BY <1>2, <2>3, <3>1, <4>1, PointFields DEF Entered
        <5> QED  BY <1>2, <1>4, <5>1 DEF MayBeValid
      <4> QED  BY <3>1, <4>1 DEF Entered
    <3>4. Entered(r)'
      BY <1>3, <1>6
    <3>5. r[1] > p[1]
      BY <1>2, <1>3, <3>3, PointFields
    <3> QED  BY <1>3, <2>3, <3>2, <3>4, <3>5 DEF Stands
  <2> QED  BY <2>1, <2>2, <2>3
<1>8. /\ \A d \in accepted' : d < device' \/ (d = device' /\ main' = "point")
      /\ main' = "point" => device' \in accepted'
      /\ main' \notin {"done", "failed"}
  BY <1>2, <1>4, <1>5 DEF RegisterPoint, NextPoint, NextDevice, ServedInv
<1> QED  BY <1>5, <1>7, <1>8 DEF ServedInv

LEMMA ServedInductive == IInv /\ ServedInv /\ [Next]_vars => ServedInv'
<1> SUFFICES ASSUME IInv, ServedInv, [Next]_vars PROVE ServedInv'
  OBVIOUS
<1>1. CASE InitStep
  BY <1>1, LoopServes, PointServes DEF InitStep
<1>2. CASE UNCHANGED <<points, initVars>>
  <2>1. \A p \in Points : Entered(p)' <=> Entered(p)
    BY <1>2 DEF Entered, initVars
  <2>2. \A p \in Points : Entered(p)' => Stands(p)'
    BY <1>2, <2>1, NothingEntered
  <2> QED  BY <1>2, <2>2 DEF ServedInv, initVars
<1>3. CASE \E h \in Handlers : Request(h) \/ HandlerStep(h)
  BY <1>2, <1>3 DEF Request, HandlerStep, Lookup, CollectorReturns, registry
<1> QED  BY <1>1, <1>2, <1>3 DEF Next, vars, registry

(* When Init has returned, every name of every accepted list stands for    *)
(* its point or for that of a later device: no failed collector, refused   *)
(* list or request in between changes what is served.                      *)
THEOREM AcceptedAreServed == Spec => []AcceptedPointsServed
<1>1. Init => ServedInv
  BY DEF Init, ServedInv, Entered
<1>2. IInv /\ ServedInv => AcceptedPointsServed
  <2> SUFFICES ASSUME IInv, ServedInv, main = "done", NEW p \in Points,
                      p[1] \in accepted
               PROVE  \/ points[NameOf(p)] = p
                      \/ \E q \in Points : /\ q[1] \in accepted /\ q[1] > p[1]
                                           /\ NameOf(q) = NameOf(p)
                                           /\ points[NameOf(p)] = q
    BY DEF AcceptedPointsServed
  <2>1. Entered(p)
    BY DEF ServedInv, Entered
  <2>2. Stands(p)
    BY <2>1 DEF ServedInv
  <2> QED  BY <2>2 DEF Stands, Entered
<1> QED  BY <1>1, <1>2, InitIInv, Inductive, ServedInductive, PTL DEF Spec
=============================================================================
