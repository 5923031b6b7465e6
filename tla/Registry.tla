------------------------------- MODULE Registry -------------------------------
(***************************************************************************)
(* The registry of collectors and points (pkg/modbus/collector_manager.go) *)
(* between the goroutine that fills it, ModbusService.Init, and the HTTP   *)
(* handlers (pkg/http/server.go), which run from before the first          *)
(* registration.  A step is one critical section of the registry's RWMutex *)
(* or one call of a collector; that such a call returns, with or without   *)
(* an error, is the subject of Collector and CollectorCall.                *)
(***************************************************************************)
EXTENDS Naturals, Sequences

CONSTANTS NumDevices,   \* devices of the configuration, in its order
          Names,        \* names of devices
          DeviceName,   \* the name of each device
          PointNames,   \* names of points
          List,         \* the names in each device's points file
          Handlers,     \* goroutines that serve an HTTP request
          None          \* no entry

Devices == 1..NumDevices

ASSUME RegistryAssumption ==
    /\ NumDevices \in Nat \ {0}
    /\ DeviceName \in [Devices -> Names]
    /\ List \in [Devices -> Seq(PointNames)]
    /\ \A d \in Devices : List[d] # <<>>
    /\ None \notin Names
    /\ None \notin Devices
    /\ None \notin Devices \X Nat

(* A point is the place of its row: the file and the position in the file. *)
Points == UNION {{d} \X DOMAIN List[d] : d \in Devices}
NameOf(p) == List[p[1]][p[2]]

Requests == [kind : {"read", "write"}, name : PointNames]
Targets == [collector : Devices, point : Points]

ASSUME NoneAssumption == None \notin Requests \cup Targets

VARIABLES
    collectors,   \* CollectorManager.collectors
    points,       \* CollectorManager.points
    deviceMap,    \* CollectorManager.deviceMap
    pending,      \* Init has called mu.Lock and not yet unlocked
    readers,      \* handlers that hold mu for reading
    main,         \* where Init is
    device,       \* the device Init is at
    row,          \* the point Init registers next
    accepted,     \* devices whose list was loaded and found valid
    pc,           \* where each handler is
    call,         \* the request of each handler
    target,       \* the collector and the point it has looked up
    answer        \* the HTTP status of its last request

registry == <<collectors, points, deviceMap>>
initVars == <<main, device, row, accepted>>
handlerVars == <<pc, call, target, answer>>
vars == <<registry, pending, readers, initVars, handlerVars>>

TypeOK ==
    /\ collectors \in [Names -> Devices \cup {None}]
    /\ points \in [PointNames -> Points \cup {None}]
    /\ deviceMap \in [PointNames -> Names \cup {None}]
    /\ pending \in BOOLEAN
    /\ readers \subseteq Handlers
    /\ main \in {"collector", "register", "load", "point", "done", "failed"}
    /\ device \in 1..NumDevices + 1
    /\ row \in Nat \ {0}
    /\ main \in {"register", "load", "point"} => device \in Devices
    /\ main = "point" => row \in DOMAIN List[device]
    /\ accepted \subseteq Devices
    /\ pc \in [Handlers -> {"idle", "lookup", "call"}]
    /\ call \in [Handlers -> Requests \cup {None}]
    /\ target \in [Handlers -> Targets \cup {None}]
    /\ answer \in [Handlers -> {0, 200, 404, 500}]
    /\ \A h \in Handlers : /\ pc[h] # "idle" => call[h] # None
                           /\ pc[h] = "call" => target[h] # None
                           /\ h \in readers <=> pc[h] = "call"
                                              /\ call[h].kind = "read"

(* InitCollectorManager has run and the HTTP server listens.               *)
Init ==
    /\ collectors = [n \in Names |-> None]
    /\ points = [n \in PointNames |-> None]
    /\ deviceMap = [n \in PointNames |-> None]
    /\ pending = FALSE
    /\ readers = {}
    /\ main = "collector" /\ device = 1 /\ row = 1
    /\ accepted = {}
    /\ pc = [h \in Handlers |-> "idle"]
    /\ call = [h \in Handlers |-> None]
    /\ target = [h \in Handlers |-> None]
    /\ answer = [h \in Handlers |-> 0]

-----------------------------------------------------------------------------
(* ModbusService.Init's loop over the devices.  mu.Lock keeps new readers  *)
(* out at once and is granted when the last reader is gone.                *)
NextDevice ==
    /\ main' = "collector"
    /\ device' = device + 1
    /\ row' = 1

NewCollector ==
    /\ main = "collector" /\ device \in Devices
    /\ \/ main' = "register" /\ UNCHANGED <<device, row>>
       \/ NextDevice
    /\ UNCHANGED <<registry, pending, readers, accepted, handlerVars>>

Lock ==
    /\ main \in {"register", "point"}
    /\ ~pending
    /\ pending' = TRUE
    /\ UNCHANGED <<registry, readers, initVars, handlerVars>>

Locked == pending /\ readers = {}

\* Mutant: a registration does not unlock.
Unlock_Forgotten == UNCHANGED pending

Unlock == pending' = FALSE

RegisterCollector ==
    /\ main = "register" /\ Locked
    /\ collectors' = [collectors EXCEPT ![DeviceName[device]] = device]
    /\ main' = "load"
    /\ Unlock
    /\ UNCHANGED <<points, deviceMap, readers, device, row, accepted,
                   handlerVars>>

(* ValidatePoints refuses a list with a name twice, and other lists too.   *)
MayBeValid(names) == \A j, k \in DOMAIN names : names[j] = names[k] => j = k

(* LoadPoints and ValidatePoints; the next device if either fails.         *)
LoadPoints ==
    /\ main = "load"
    /\ \/ /\ MayBeValid(List[device])
          /\ main' = "point"
          /\ accepted' = accepted \cup {device}
          /\ UNCHANGED <<device, row>>
       \/ NextDevice /\ UNCHANGED accepted
    /\ UNCHANGED <<registry, pending, readers, handlerVars>>

\* Mutant: the loop does not end with the last point.
NextPoint_OneMore ==
    IF row <= Len(List[device])
    THEN row' = row + 1 /\ UNCHANGED <<main, device>>
    ELSE NextDevice

\* Mutant: the loop leaves the last point out.
NextPoint_SkipsLast ==
    IF row + 1 < Len(List[device])
    THEN row' = row + 1 /\ UNCHANGED <<main, device>>
    ELSE NextDevice

NextPoint ==
    IF row < Len(List[device])
    THEN row' = row + 1 /\ UNCHANGED <<main, device>>
    ELSE NextDevice

\* Mutant: a name that is taken keeps its point and gets the new device.
Enter_KeepsPoint(n) ==
    /\ points' = [points EXCEPT ![n] = IF @ = None THEN <<device, row>> ELSE @]
    /\ deviceMap' = [deviceMap EXCEPT ![n] = DeviceName[device]]

\* Mutant: a name that is taken keeps its device and gets the new point.
Enter_KeepsDevice(n) ==
    /\ points' = [points EXCEPT ![n] = <<device, row>>]
    /\ deviceMap' = [deviceMap EXCEPT ![n] = IF @ = None THEN DeviceName[device]
                                                         ELSE @]

Enter(n) ==
    /\ points' = [points EXCEPT ![n] = <<device, row>>]
    /\ deviceMap' = [deviceMap EXCEPT ![n] = DeviceName[device]]

RegisterPoint ==
    /\ main = "point" /\ Locked
    /\ Enter(List[device][row])
    /\ NextPoint
    /\ Unlock
    /\ UNCHANGED <<collectors, readers, accepted, handlerVars>>

(* Init is over.  Without a single collector the process ends.             *)
InitReturns ==
    /\ main = "collector" /\ device = NumDevices + 1
    /\ main' = IF \E n \in Names : collectors[n] # None THEN "done"
                                                        ELSE "failed"
    /\ UNCHANGED <<registry, pending, readers, device, row, accepted,
                   handlerVars>>

InitStep ==
    \/ NewCollector \/ Lock \/ RegisterCollector \/ LoadPoints
    \/ RegisterPoint \/ InitReturns

-----------------------------------------------------------------------------
(* The handlers of the HTTP server, for requests that can be parsed.       *)
Request(h) ==
    /\ pc[h] = "idle"
    /\ pc' = [pc EXCEPT ![h] = "lookup"]
    /\ \E r \in Requests : call' = [call EXCEPT ![h] = r]
    /\ UNCHANGED <<registry, pending, readers, initVars, target, answer>>

Answer(h, status) ==
    /\ answer' = [answer EXCEPT ![h] = status]
    /\ pc' = [pc EXCEPT ![h] = "idle"]
    /\ target' = [target EXCEPT ![h] = None]

ErrorStatus(h) == IF call[h].kind = "read" THEN 404 ELSE 500

Registered(n) ==
    /\ deviceMap[n] # None
    /\ collectors[deviceMap[n]] # None
    /\ points[n] # None

(* WritePoint and GetPointValue look the three maps up under RLock.        *)
(* WritePoint unlocks and then calls the collector; GetPointValue calls    *)
(* the collector with the lock held.                                       *)
Lookup(h) ==
    /\ pc[h] = "lookup"
    /\ ~pending
    /\ LET n == call[h].name IN
          \/ /\ Registered(n)
             /\ target' = [target EXCEPT ![h] =
                              [collector |-> collectors[deviceMap[n]],
                               point     |-> points[n]]]
             /\ readers' = readers \cup (IF call[h].kind = "read" THEN {h}
                                                                  ELSE {})
             /\ pc' = [pc EXCEPT ![h] = "call"]
             /\ UNCHANGED answer
          \/ /\ ~Registered(n)
             /\ Answer(h, ErrorStatus(h))
             /\ UNCHANGED readers
    /\ UNCHANGED <<registry, pending, initVars, call>>

\* Mutant: GetPointValue does not unlock.
RUnlock_Forgotten(h) == UNCHANGED readers

RUnlock(h) == readers' = readers \ {h}

(* The collector's ReadSinglePoint or WritePoint returns.                  *)
CollectorReturns(h) ==
    /\ pc[h] = "call"
    /\ \E status \in {200, ErrorStatus(h)} : Answer(h, status)
    /\ RUnlock(h)
    /\ UNCHANGED <<registry, pending, initVars, call>>

HandlerStep(h) == Lookup(h) \/ CollectorReturns(h)

-----------------------------------------------------------------------------
(* A process whose Init has failed ends, with its handlers.                *)
Next ==
    /\ main # "failed"
    /\ \/ InitStep
       \/ \E h \in Handlers : Request(h) \/ HandlerStep(h)

Spec == Init /\ [][Next]_vars

(* Goroutines that can run do, calls of a collector return, and RWMutex    *)
(* lets a waiting writer in before new readers.  Nobody has to send        *)
(* requests.                                                               *)
Fairness ==
    /\ WF_vars(InitStep)
    /\ \A h \in Handlers : WF_vars(main # "failed" /\ HandlerStep(h))

FairSpec == Spec /\ Fairness

-----------------------------------------------------------------------------
(* What is registered for a name fits together at every moment: the device *)
(* has a collector of that device's name and the point stands in that      *)
(* device's own file, also when a later device registers the name again.   *)
(* The errors "collector not found for device" and "point config not       *)
(* found" never occur.                                                     *)
EntriesFitTogether ==
    \A n \in PointNames : deviceMap[n] # None =>
        /\ points[n] # None
        /\ NameOf(points[n]) = n
        /\ DeviceName[points[n][1]] = deviceMap[n]
        /\ collectors[deviceMap[n]] # None
        /\ DeviceName[collectors[deviceMap[n]]] = deviceMap[n]

HasOwnName(d) == \A e \in Devices : DeviceName[e] = DeviceName[d] => e = d

(* A handler asks the collector of the device in whose file the point      *)
(* stands, for the name of its request, however the registry has changed   *)
(* since it looked, unless another device has the name of that one.        *)
AsksThePointsDevice ==
    \A h \in Handlers : pc[h] = "call" =>
        /\ NameOf(target[h].point) = call[h].name
        /\ HasOwnName(target[h].point[1])
              => target[h].collector = target[h].point[1]

(* When Init has returned the name of every point of every list it accepted *)
(* stands for that point, unless a later device whose list was accepted has *)
(* a point of that name: no lookup in between, no refused list and no       *)
(* failed collector changes what is served.                                 *)
AcceptedPointsServed ==
    main = "done" =>
        \A p \in Points : p[1] \in accepted =>
            \/ points[NameOf(p)] = p
            \/ \E q \in Points : /\ q[1] \in accepted /\ q[1] > p[1]
                               /\ NameOf(q) = NameOf(p)
                               /\ points[NameOf(p)] = q

(* Init gets its locks although handlers hold the registry during network  *)
(* calls and new requests keep coming.                                     *)
InitTerminates == <>(main \in {"done", "failed"})

(* Every request is answered, also those that wait behind a registration   *)
(* that waits behind a read, unless the process ends.                      *)
RequestsAnswered ==
    \A h \in Handlers : pc[h] # "idle" ~> (pc[h] = "idle" \/ main = "failed")
=============================================================================
